---- MODULE Spec2Model ----
(***************************************************************************)
(* ytarchive (ytarchive.py): the live fragment acquisition engine.         *)
(*                                                                         *)
(* One download session: the shared DownloadInfo, and per media kind one   *)
(* coordinator thread (download_stream) with its fragment workers          *)
(* (download_frags), the task channel seq_queue, the result channel        *)
(* data_queue and the output file.  The origin (the broadcast, its         *)
(* fragment URLs, the watch page) and the clock are the environment.       *)
(*                                                                         *)
(* Every step of a thread that touches shared state (a section under       *)
(* info.lock, a queue operation, an HTTP call) is one action; the purely   *)
(* local statements around it belong to the same action.  Time passes      *)
(* between the steps; how much shows when a thread reads time.time().      *)
(***************************************************************************)
EXTENDS Integers, Sequences, FiniteSets, TLC

(***************************************************************************)
(* Program constants.                                                      *)
(***************************************************************************)
DTYPE_AUDIO == "audio"
DTYPE_VIDEO == "video"
RECHECK_TIME == 15
FRAG_MAX_TRIES == 10
HOUR == 60 * 60
\* full_retries = 3 at the top of every outer iteration of download_frags
FULL_RETRIES == 3
\* tries = 10 in download_stream: write attempts left for the fragment at cur_frag
WRITE_TRIES == 10
\* (max_seqs - cur_seq) > 100: the backlog at which dead workers are replaced
RESPAWN_GAP == 100

(***************************************************************************)
(* Bounds of the model.                                                    *)
(***************************************************************************)
\* info.thread_count ranges over 1..MaxThreads
MaxThreads == 2
\* worker threads of a session, over both kinds
MaxWorkers == 2
\* fragments the broadcast publishes: sequence numbers 0..MaxFrags-1
MaxFrags == 2
\* steps of the clock in a session
MaxTicks == 1
\* disturbances the environment causes in one session (URL expiry, privating,
\* a transient fetch error, a failing watch page, a failing write)
MaxDisturb == 1
\* how far X-Head-Seqnum may run ahead of the fragments that can be fetched
FarLead == 102

Kinds == {DTYPE_AUDIO, DTYPE_VIDEO}
Workers == 1..MaxThreads
TickSteps == {RECHECK_TIME, HOUR + 1}

VARIABLES
    kinds,       \* the media kinds of the session: audio, and video unless audio-only
    info,        \* DownloadInfo: the fields guarded by info.lock
    seq_queue,   \* per kind, the task channel: <<seq, max_seq>> pairs
    data_queue,  \* per kind, the result channel: Fragments
    wk,          \* per kind and worker slot, the locals of download_frags
    co,          \* per kind, the locals of download_stream
    file,        \* per kind, what has been appended to the output file
    origin,      \* the broadcast at the origin, and what may still disturb the session
    clock,       \* time.time() as last read, and the clock steps left
    fetched,     \* history: the times of the last two fetches of the player response,
                 \* and whether get_video_info has returned at its is_unavailable check
    main,        \* the locals of main, and where the files of the session are
    calc         \* a function of the program taken by itself: its input and its result

vars == <<kinds, info, seq_queue, data_queue, wk, co, file, origin, clock, fetched, main,
          calc>>

now == clock.t

Max(a, b) == IF a >= b THEN a ELSE b

\* Fragment(seq, header_seqnum, fname, data); late marks a Fragment the
\* coordinator took off the result channel on its "empty the queue" branch
Fragment(seq, header_seqnum) == [seq |-> seq, x_head_seqnum |-> header_seqnum, late |-> FALSE]

\* a worker slot without a running thread
NoThread ==
    [pc |-> "none", tries |-> 0, full_retries |-> FULL_RETRIES,
     seq |-> -1, max_seq |-> -1, is_403 |-> FALSE, url |-> 0,
     stop_gets |-> 0, stop_frags |-> 0]

\* the locals of download_frags when the thread starts
NewThread(url) == [NoThread EXCEPT !.pc = "get", !.url = url]

\* a thread that ended by an uncaught exception keeps nothing
Crashed == [NoThread EXCEPT !.pc = "crashed"]

\* t.is_alive()
IsAlive(k, w) == wk[k][w].pc \notin {"none", "crashed"}

\* the locals of download_stream before seeding
NewStream ==
    [pc |-> "seed", cur_frag |-> 0, cur_seq |-> 0, active_downloads |-> 0,
     max_seqs |-> -1, tries |-> WRITE_TRIES, stopping |-> FALSE,
     downloading |-> FALSE, data |-> <<>>, fails |-> 0]

\* DownloadInfo.__init__: "the usual 5h 59m expiration"
USUAL_EXPIRES == 21540

\* int(streaming_data["expiresInSeconds"]) of a player response of origin o:
\* the value tells the generations of signed URLs apart
ExpiresInSeconds(o) == USUAL_EXPIRES - 1 - o.gen

\* DownloadInfo.__init__: target_duration before the first resolve
TARGET_DURATION == 5

\* formats[0]["targetDurationSec"] of a player response of origin o: the
\* fragments of the broadcast are 2 seconds long
TargetDurationSec(o) == 2

\* MediaDLInfo.__init__: download_url = "", no URL
NoUrl == -1

\* DownloadInfo.__init__: quality before the selection
NoQuality == -1

\* VIDEO_LABEL_ITAGS["audio_only"]
AUDIO_ONLY == 0

\* line 61
AUDIO_ITAG == 140

\* VIDEO_LABEL_ITAGS["1080p60"]["h264"]: the itag of the video of a session
VIDEO_ITAG == 299

\* lines 914-943: the itag the preference list of the user comes to, the one
\* of audio_only in a session of audio alone
Selection == IF DTYPE_VIDEO \in kinds THEN VIDEO_ITAG ELSE AUDIO_ONLY

\* a get_video_info that stores the video URL whatever was selected
StoredBoth(inf, o) ==
    [inf EXCEPT !.quality = IF @ < 0 THEN Selection ELSE @,
                !.download_url = [k \in Kinds |-> o.gen]]

\* lines 888-962: the quality and the download URLs after a player response
\* of origin o.  The selection (quality < 0) stores the audio URL and, for
\* audio_only, "" as the video URL; a refresh stores the audio URL and, unless
\* the quality is audio_only, the video URL.
Stored(inf, o) ==
    LET quality == IF inf.quality < 0 THEN Selection ELSE inf.quality IN
    [inf EXCEPT !.quality = quality,
                !.download_url =
                    [k \in Kinds |->
                        IF k = DTYPE_AUDIO \/ quality # AUDIO_ONLY THEN o.gen
                        ELSE IF inf.quality < 0 THEN NoUrl
                        ELSE @[k]]]

\* get_video_info has stored the URLs of generation g in a session
Resolved(inf, g) == Stored(inf, [gen |-> g])

\* parse_input_url (lines 1575-1600) and get_gvideo_url: the googlevideo URLs
\* the user gave, one for every kind of the session; quality is the itag of
\* the video URL, and that of the audio URL when there is no other
Given(inf) ==
    [inf EXCEPT !.gvideo_ddl = TRUE,
                !.quality = IF DTYPE_VIDEO \in kinds THEN VIDEO_ITAG ELSE AUDIO_ITAG,
                !.download_url = [k \in Kinds |-> IF k \in kinds THEN 0 ELSE NoUrl]]

\* DownloadInfo.__init__, and --threads
NewInfo(tc) ==
    [stopping |-> FALSE, in_progress |-> FALSE, is_live |-> FALSE,
     is_unavailable |-> FALSE, gvideo_ddl |-> FALSE, quality |-> NoQuality,
     last_updated |-> 0, expires_in_seconds |-> USUAL_EXPIRES,
     target_duration |-> TARGET_DURATION, thread_count |-> tc,
     download_url |-> [k \in Kinds |-> NoUrl],
     active_threads |-> [k \in Kinds |-> 0]]

\* main before its first get_video_info: pc is its place, first_wait the local
\* of get_playable_player_response, status the playability status the last
\* resolve of main met (history), tmpdir whether the session's temp directory
\* exists, ts where the intermediate file of each kind is, merge and save the
\* answers after an interrupt, mux how the muxing step went, code the exit code
NewMain ==
    [pc |-> "resolve", first_wait |-> TRUE, status |-> "none", tmpdir |-> FALSE,
     ts |-> [k \in Kinds |-> "none"], merge |-> FALSE, save |-> FALSE,
     mux |-> "none", mfile |-> "", code |-> 0]

\* what the environment may do in a session: sessions of one worker meet
\* faults, clock steps and the interrupt, or are given a direct googlevideo
\* URL; sessions of several workers meet either clock steps or the interrupt
Sessions(n) ==
    IF n = 1
       THEN {[faults |-> MaxDisturb, ticks |-> MaxTicks, interrupts |-> 1, lead |-> ld,
              gvideo |-> FALSE] : ld \in {0, FarLead}}
            \cup {[faults |-> 0, ticks |-> 0, interrupts |-> 1, lead |-> 0, gvideo |-> TRUE]}
       ELSE {[faults |-> 0, ticks |-> MaxTicks, interrupts |-> 0, lead |-> 0, gvideo |-> FALSE],
             [faults |-> 0, ticks |-> 0, interrupts |-> 1, lead |-> 0, gvideo |-> FALSE]}

\* no function is looked at by itself in a download session
Idle == [op |-> "none"]

Init ==
    /\ kinds \in {{DTYPE_AUDIO}, Kinds}
    /\ \E tc \in 1..MaxThreads :
          /\ tc * Cardinality(kinds) <= MaxWorkers
          /\ \E s \in Sessions(tc * Cardinality(kinds)) :
                /\ info = IF s.gvideo THEN Given(NewInfo(tc)) ELSE NewInfo(tc)
                /\ origin = [avail |-> 1, live |-> TRUE, gen |-> 0, private |-> FALSE,
                             lead |-> s.lead, faults |-> 0, allowed |-> s.faults,
                             interrupts |-> s.interrupts]
                /\ clock = [t |-> 0, ticks |-> s.ticks]
    /\ seq_queue = [k \in Kinds |-> <<>>]
    /\ data_queue = [k \in Kinds |-> <<>>]
    /\ wk = [k \in Kinds |-> [w \in Workers |-> NoThread]]
    /\ co = [k \in Kinds |-> [NewStream EXCEPT !.pc = "none"]]
    /\ file = [k \in Kinds |-> <<>>]
    /\ fetched = [times |-> <<>>, flip |-> FALSE, refused |-> FALSE]
    /\ main = NewMain
    /\ calc = Idle

(***************************************************************************)
(* get_video_info: the metadata resolver, as called during the download.   *)
(* A handler may call it more than once, so it is a function of the part   *)
(* of the state it reads and writes.                                       *)
(***************************************************************************)
\* what get_video_info reads and writes; raised and ret are the way the last
\* call ended
World ==
    [info |-> info, fetched |-> fetched, origin |-> origin, clock |-> clock,
     raised |-> FALSE, ret |-> FALSE]

SetWorld(W) ==
    /\ info' = W.info
    /\ fetched' = W.fetched
    /\ origin' = W.origin
    /\ clock' = W.clock

\* what the watch page can answer: out of the ordinary answers are
\* disturbances (the download of the page fails and get_player_response
\* raises, an empty page, OFFLINE or ERROR or an unknown status mid-stream)
Abnormal == {"raise", "empty", "offline", "error", "unknown"}

Outcomes(W) ==
    (IF W.origin.private
        THEN {"no_details", "unplayable"}
        ELSE {"ok"} \cup (IF W.origin.live THEN {} ELSE {"ok_stale"}))
    \cup (IF W.origin.faults < W.origin.allowed THEN Abnormal ELSE {})

\* C6 mutant: is_unavailable does not keep get_video_info from fetching
ResolvesUnavailable(inf, t) ==
    /\ ~inf.gvideo_ddl
    /\ ~inf.stopping
    /\ ~(t - inf.last_updated < RECHECK_TIME)

\* get_video_info gets past its early returns and fetches the player response
Resolves(inf, t) ==
    /\ ~inf.gvideo_ddl
    /\ ~inf.stopping
    /\ ~inf.is_unavailable
    /\ ~(t - inf.last_updated < RECHECK_TIME)

\* a resolve that stamps last_updated whatever the player response was
PlayableStamps(inf, t, out, o) ==
    CASE out \in {"no_details", "unplayable"} ->
            IF inf.in_progress
               THEN [inf EXCEPT !.is_live = FALSE, !.is_unavailable = TRUE,
                                !.last_updated = t]
               ELSE inf
      [] out \in {"error", "unknown"} ->
            IF inf.in_progress THEN [inf EXCEPT !.is_live = FALSE, !.last_updated = t]
            ELSE inf
      [] out = "ok" ->
            [Stored(inf, o) EXCEPT
                        !.in_progress = TRUE,
                        !.target_duration = TargetDurationSec(o),
                        !.expires_in_seconds = ExpiresInSeconds(o),
                        !.is_live = o.live,
                        !.last_updated = t]
      [] out = "ok_stale" ->
            [inf EXCEPT !.in_progress = TRUE,
                        !.target_duration = TargetDurationSec(o),
                        !.expires_in_seconds = ExpiresInSeconds(o),
                        !.is_live = o.live,
                        !.last_updated = t]
      [] OTHER -> inf

\* info after get_playable_player_response answered out
Playable(inf, t, out, o) ==
    CASE out \in {"no_details", "unplayable"} ->
            IF inf.in_progress
               THEN [inf EXCEPT !.is_live = FALSE, !.is_unavailable = TRUE]
               ELSE inf
      [] out \in {"error", "unknown"} ->
            IF inf.in_progress THEN [inf EXCEPT !.is_live = FALSE] ELSE inf
      [] out = "ok" ->
            [Stored(inf, o) EXCEPT
                        !.in_progress = TRUE,
                        !.target_duration = TargetDurationSec(o),
                        !.expires_in_seconds = ExpiresInSeconds(o),
                        !.is_live = o.live,
                        !.last_updated = t]
      [] out = "ok_stale" ->
            [inf EXCEPT !.in_progress = TRUE,
                        !.target_duration = TargetDurationSec(o),
                        !.expires_in_seconds = ExpiresInSeconds(o),
                        !.is_live = o.live,
                        !.last_updated = t]
      [] OTHER -> inf

\* a get_video_info that stamps last_updated whenever it has fetched
GetVideoInfoStamps(inf, t, out, o) ==
    IF Resolves(inf, t) THEN [Playable(inf, t, out, o) EXCEPT !.last_updated = t] ELSE inf

\* info after get_video_info(info)
GetVideoInfo(inf, t, out, o) ==
    IF Resolves(inf, t) THEN Playable(inf, t, out, o) ELSE inf

\* the time that has passed when a thread reads time.time()
Elapse(W) == {0} \cup (IF W.clock.ticks > 0 THEN TickSteps ELSE {})

\* get_video_info reads the clock only past its first early returns
ElapseIn(W) ==
    IF W.info.gvideo_ddl \/ W.info.stopping \/ W.info.is_unavailable THEN {0} ELSE Elapse(W)

Advance(c, d) == [t |-> c.t + d, ticks |-> c.ticks - (IF d > 0 THEN 1 ELSE 0)]

\* the player response is fetched at t: the times of the last two fetches, and
\* a mark that every fetch turns over (history)
Fetch(f, t) ==
    [f EXCEPT !.times = IF @ = <<>> THEN <<t>> ELSE <<@[Len(@)], t>>, !.flip = ~f.flip]

\* lines 840-841: get_video_info has returned None at "if info.is_unavailable"
\* (history)
Refused(f, inf) == [f EXCEPT !.refused = @ \/ (~inf.stopping /\ inf.is_unavailable)]

\* a call of get_video_info(info), d after the clock was last read
CallGetVideoInfo(W, out, d) ==
    LET t == W.clock.t + d
        res == Resolves(W.info, t)
    IN [info |-> GetVideoInfo(W.info, t, out, W.origin),
        fetched |-> IF res THEN Fetch(W.fetched, t) ELSE Refused(W.fetched, W.info),
        origin |-> IF res /\ out \in Abnormal
                      THEN [W.origin EXCEPT !.faults = @ + 1]
                      ELSE W.origin,
        clock |-> Advance(W.clock, d),
        raised |-> res /\ out = "raise",
        ret |-> res /\ out \in {"ok", "ok_stale"}]

(***************************************************************************)
(* download_frags: a fragment worker of kind k in slot w.                  *)
(***************************************************************************)
SetWorker(k, w, r) == wk' = [wk EXCEPT ![k][w] = r]

\* back to "while downloading", whose body first resets the per-task locals
Again(r) ==
    [r EXCEPT !.pc = "get", !.tries = 0, !.full_retries = FULL_RETRIES,
              !.seq = -1, !.max_seq = -1, !.is_403 = FALSE]

\* downloading = False: on to the decrement of active_threads
Leave(r) == [Again(r) EXCEPT !.pc = "exit"]

\* C9 mutant: an attempt is begun without the stop check
AttemptUnchecked(r, inf) == [r EXCEPT !.pc = "fetch"]

\* lines 1105-1109: the stop check before an attempt; past it the GET is begun
Attempt(r, inf) == IF inf.stopping THEN Leave(r) ELSE [r EXCEPT !.pc = "fetch"]

\* lines 1042-1044 and 1057-1060: stopping seen at the top of the loop or after
\* a timeout of seq_queue.get
WorkerStopped(k, w) ==
    /\ wk[k][w].pc = "get"
    /\ info.stopping
    /\ SetWorker(k, w, Leave(wk[k][w]))
    /\ UNCHANGED <<kinds, calc, main, info, seq_queue, data_queue, co, file, origin, clock, fetched>>

\* lines 1096-1101: the task is at or past the known maximum of an ended stream
PastMax(r) == r.max_seq > -1 /\ ~info.is_live /\ r.seq >= r.max_seq

\* lines 1053-1054 and 1096-1109: seq_queue.get returns a task
WorkerTake(k, w) ==
    LET r == [wk[k][w] EXCEPT !.seq = Head(seq_queue[k])[1],
                              !.max_seq = Head(seq_queue[k])[2]]
    IN
    /\ wk[k][w].pc = "get"
    /\ seq_queue[k] # <<>>
    /\ seq_queue' = [seq_queue EXCEPT ![k] = Tail(@)]
    /\ SetWorker(k, w, IF PastMax(r) THEN Leave(r) ELSE Attempt(r, info))
    /\ UNCHANGED <<kinds, calc, main, info, data_queue, co, file, origin, clock, fetched>>

\* lines 1055-1094: seq_queue.get has timed out FRAG_MAX_TRIES times in a row,
\* stopping unset at each.  frag_tries, which counts the timeouts and which
\* every task taken resets, is read by this worker alone; the timeouts before
\* the last change nothing else, so they are not steps of their own.
WorkerStarve(k, w) ==
    LET r == wk[k][w] IN
    /\ r.pc = "get"
    /\ ~info.stopping
    /\ seq_queue[k] = <<>>
    /\ IF info.active_threads[k] > 1
          THEN SetWorker(k, w, Leave(r)) /\ SetWorld(World)
       ELSE IF ~info.is_live
          THEN SetWorker(k, w, Leave(r)) /\ SetWorld(World)
       ELSE \E out \in Outcomes(World), d \in ElapseIn(World) :
               LET V == CallGetVideoInfo(World, out, d) IN
               /\ SetWorld(V)
               /\ SetWorker(k, w, IF V.raised THEN Crashed
                                  ELSE IF ~V.info.is_live THEN Leave(r)
                                  ELSE r)
    /\ UNCHANGED <<kinds, calc, main, seq_queue, data_queue, co, file>>

\* the sleep after a failed attempt is over
WorkerTry(k, w) ==
    /\ wk[k][w].pc = "try"
    /\ SetWorker(k, w, Attempt(wk[k][w], info))
    /\ UNCHANGED <<kinds, calc, main, info, seq_queue, data_queue, co, file, origin, clock, fetched>>

\* a GET that ended, and a Fragment delivered, after info.stopping was set
\* (history)
Counted(r, delivered) ==
    [r EXCEPT !.stop_gets = IF info.stopping /\ @ < 2 THEN @ + 1 ELSE @,
              !.stop_frags = IF info.stopping /\ delivered /\ @ < 2 THEN @ + 1 ELSE @]

\* the X-Head-Seqnum header of a response
HeadSeqnum == origin.avail - 1 + origin.lead

\* lines 1117-1147: the GET answers 200 with a body
WorkerFetched(k, w) ==
    LET r == Counted(wk[k][w], TRUE) IN
    /\ r.pc = "fetch"
    /\ r.url = origin.gen
    /\ r.seq < origin.avail
    /\ data_queue' = [data_queue EXCEPT ![k] = Append(@, Fragment(r.seq, HeadSeqnum))]
    /\ SetWorker(k, w, Again(r))
    /\ UNCHANGED <<kinds, calc, main, info, seq_queue, co, file, origin, clock, fetched>>

\* full_retries -= 1; the only test of it is "full_retries > 0", so the values
\* below 0 are kept as 0
Decremented(n) == IF n > 0 THEN n - 1 ELSE n

\* the exhausted-tries block without its case for an unavailable video
ExhaustedKeepsOn(r, inf) ==
    IF ~inf.is_live
       THEN IF inf.is_unavailable /\ r.is_403
               THEN Attempt([r EXCEPT !.tries = 0], inf)
            ELSE IF r.max_seq > -1 /\ r.seq < r.max_seq - 2 /\ r.full_retries > 0
               THEN Again(r)
            ELSE Leave(r)
       ELSE Attempt([r EXCEPT !.tries = 0], inf)

\* lines 1218-1234: the worker after the refresh of the exhausted-tries block,
\* inf being the shared state then
Exhausted(r, inf) ==
    IF ~inf.is_live
       THEN IF inf.is_unavailable /\ r.is_403
               THEN Leave(r)
            ELSE IF r.max_seq > -1 /\ r.seq < r.max_seq - 2 /\ r.full_retries > 0
               THEN Again(r)
            ELSE Leave(r)
       ELSE Attempt([r EXCEPT !.tries = 0], inf)

\* "tries += 1" and what follows it in the same iteration: the sleep, or at
\* FRAG_MAX_TRIES the block of lines 1201-1234.  W is the shared state the
\* failed attempt left.
Failed(k, w, r, W) ==
    LET x == [r EXCEPT !.tries = @ + 1] IN
    IF x.tries < FRAG_MAX_TRIES
       THEN SetWorker(k, w, [x EXCEPT !.pc = "try"]) /\ SetWorld(W)
       ELSE LET y == [x EXCEPT !.full_retries = Decremented(@)] IN
            IF W.info.is_live
               THEN \E out \in Outcomes(W), d \in ElapseIn(W) :
                       LET V == CallGetVideoInfo(W, out, d) IN
                       /\ SetWorld(V)
                       /\ SetWorker(k, w, IF V.raised THEN Crashed
                                          ELSE Exhausted(y, V.info))
               ELSE SetWorker(k, w, Exhausted(y, W.info)) /\ SetWorld(W)

RECURSIVE LastTry(_)
\* the worker before the last of its attempts at a fragment, the attempts up
\* to there having failed with nothing changed but tries
LastTry(r) ==
    IF r.tries + 1 < FRAG_MAX_TRIES THEN LastTry([r EXCEPT !.tries = @ + 1]) ELSE r

\* lines 1137-1143: the GET answers 200 without a body
WorkerEmpty(k, w) ==
    LET r == Counted(wk[k][w], FALSE) IN
    /\ r.pc = "fetch"
    /\ r.url = origin.gen
    /\ r.seq < origin.avail
    /\ origin.faults < origin.allowed
    /\ Failed(k, w, r, [World EXCEPT !.origin.faults = @ + 1])
    /\ UNCHANGED <<kinds, calc, main, seq_queue, data_queue, co, file>>

\* the 403 handler without the comparison of the URLs: get_video_info is
\* called whatever the shared URL is
Worker403Resolves(k, w) ==
    LET r == [Counted(wk[k][w], FALSE) EXCEPT !.is_403 = TRUE] IN
    /\ r.pc = "fetch"
    /\ r.url # origin.gen
    /\ IF info.gvideo_ddl
          THEN Failed(k, w, IF info.stopping THEN r ELSE LastTry(r), World)
          ELSE \E out \in Outcomes(World), d \in ElapseIn(World) :
                  LET V == CallGetVideoInfo(World, out, d)
                      x == [r EXCEPT !.url = V.info.download_url[k]]
                  IN
                  IF V.raised
                     THEN SetWorld(V) /\ SetWorker(k, w, Crashed)
                     ELSE Failed(k, w, x, V)
    /\ UNCHANGED <<kinds, calc, main, seq_queue, data_queue, co, file>>

\* lines 1148-1167 and 1179-1181: the GET answers 403.  When the shared URL is
\* the worker's own and get_video_info returns early, the 403 changes nothing
\* but tries; such 403s that follow each other while stopping is unset are one
\* step up to the last of them.
Worker403(k, w) ==
    LET r == [Counted(wk[k][w], FALSE) EXCEPT !.is_403 = TRUE]
        new_url == info.download_url[k]
    IN
    /\ r.pc = "fetch"
    /\ r.url # origin.gen
    /\ IF info.gvideo_ddl
          THEN Failed(k, w, IF info.stopping THEN r ELSE LastTry(r), World)
       ELSE IF new_url # r.url
          THEN Failed(k, w, [r EXCEPT !.url = new_url], World)
          ELSE \E out \in Outcomes(World), d \in ElapseIn(World) :
                  LET V == CallGetVideoInfo(World, out, d)
                      x == IF V.ret THEN [r EXCEPT !.url = V.info.download_url[k]] ELSE r
                  IN
                  IF V.raised
                     THEN SetWorld(V) /\ SetWorker(k, w, Crashed)
                  ELSE IF Resolves(info, now + d) \/ info.stopping
                     THEN Failed(k, w, x, V)
                  ELSE Failed(k, w, LastTry(x), V)
    /\ UNCHANGED <<kinds, calc, main, seq_queue, data_queue, co, file>>

\* the test of the 404 handler without the stream's state
NearEndLive(r) == r.max_seq > -1 /\ r.seq >= r.max_seq - 2

\* "not info.is_live and seq >= (max_seq - 2)" under "max_seq > -1"
NearEnd(r) == r.max_seq > -1 /\ ~info.is_live /\ r.seq >= r.max_seq - 2

\* lines 1168-1181: the GET answers 404, the fragment not existing (yet).
\* While stopping is unset the 404s of one fragment that follow each other
\* change nothing but this worker's tries, and they are one step up to the
\* last of them: a 404 followed by another answer leaves no trace.
Worker404(k, w) ==
    LET r == Counted(wk[k][w], FALSE) IN
    /\ r.pc = "fetch"
    /\ r.url = origin.gen
    /\ r.seq >= origin.avail
    /\ IF NearEnd(r) THEN SetWorker(k, w, Leave(r)) /\ SetWorld(World)
       ELSE IF info.stopping THEN Failed(k, w, r, World)
       ELSE Failed(k, w, LastTry(r), World)
    /\ UNCHANGED <<kinds, calc, main, seq_queue, data_queue, co, file>>

\* lines 1182-1199: the GET fails otherwise (a timeout, a reset connection)
WorkerError(k, w) ==
    LET r == Counted(wk[k][w], FALSE) IN
    /\ r.pc = "fetch"
    /\ origin.faults < origin.allowed
    /\ IF NearEnd(r)
          THEN /\ SetWorker(k, w, Leave(r))
               /\ SetWorld([World EXCEPT !.origin.faults = @ + 1])
          ELSE Failed(k, w, r, [World EXCEPT !.origin.faults = @ + 1])
    /\ UNCHANGED <<kinds, calc, main, seq_queue, data_queue, co, file>>

\* lines 1148-1151 and 1179-1181: the GET answers an HTTP error that is
\* neither 403 nor 404 (5xx)
WorkerHttpError(k, w) ==
    LET r == Counted(wk[k][w], FALSE) IN
    /\ r.pc = "fetch"
    /\ origin.faults < origin.allowed
    /\ Failed(k, w, r, [World EXCEPT !.origin.faults = @ + 1])
    /\ UNCHANGED <<kinds, calc, main, seq_queue, data_queue, co, file>>

\* lines 1236-1240: the thread ends
WorkerExit(k, w) ==
    /\ wk[k][w].pc = "exit"
    /\ info' = [info EXCEPT !.active_threads[k] = @ - 1]
    /\ SetWorker(k, w, NoThread)
    /\ UNCHANGED <<kinds, calc, main, seq_queue, data_queue, co, file, origin, clock, fetched>>

(***************************************************************************)
(* download_stream: the coordinator of kind k.                             *)
(***************************************************************************)
SetStream(k, c) == co' = [co EXCEPT ![k] = c]

\* the n tasks put from cur_seq on, each carrying max_seqs as it is now
Tasks(c, n) == [i \in 1..n |-> <<c.cur_seq + i - 1, c.max_seqs>>]

\* the tasks are put and cur_seq is left as it was
DispatchSame(c, n) == [c EXCEPT !.active_downloads = @ + n]

\* seq_queue.put((cur_seq, max_seqs)); cur_seq += 1; active_downloads += 1
Dispatch(c, n) == [c EXCEPT !.cur_seq = @ + n, !.active_downloads = @ + n]

\* thread slots not in use
FreeSlots(k) == {w \in Workers : wk[k][w].pc = "none"}

\* the n lowest free slots
SpawnSlots(k, n) == {w \in FreeSlots(k) : Cardinality({v \in FreeSlots(k) : v < w}) < n}

\* one thread is started where any is missing
MissingOne(k) == IF info.active_threads[k] < info.thread_count THEN 1 ELSE 0

\* iterations of "while active_threads < info.thread_count"
Missing(k) == Max(0, info.thread_count - info.active_threads[k])

\* lines 1269-1280 and 1415-1426: start the missing threads, a task for each
StartThreads(k, c) ==
    LET n == Missing(k) IN
    /\ wk' = [wk EXCEPT ![k] = [w \in Workers |->
                 IF w \in SpawnSlots(k, n) THEN NewThread(info.download_url[k]) ELSE @[w]]]
    /\ info' = [info EXCEPT !.active_threads[k] = @ + n]
    /\ seq_queue' = [seq_queue EXCEPT ![k] = @ \o Tasks(c, n)]
    /\ SetStream(k, Dispatch(c, n))

\* lines 1268-1280
Seed(k) ==
    /\ co[k].pc = "seed"
    /\ StartThreads(k, [co[k] EXCEPT !.pc = "loop"])
    /\ UNCHANGED <<kinds, calc, main, data_queue, file, origin, clock, fetched>>

\* lines 1309-1319: how many tasks one received Fragment is answered with
NextTasks(c) ==
    IF c.max_seqs > 0
       THEN (IF c.cur_seq <= c.max_seqs + 1 THEN 1 ELSE 0)
       ELSE 1

\* C4 mutant: max_seqs is left as it is when a Fragment is received
ReceivedKeepsMax(s, d) ==
    LET c1 == [s.c EXCEPT !.active_downloads = @ - 1] IN
    IF ~c1.downloading \/ c1.stopping
       THEN [c |-> [c1 EXCEPT !.data = Append(@, [d EXCEPT !.late = TRUE])], put |-> s.put]
       ELSE LET c2 == [c1 EXCEPT !.data = Append(@, d)]
                n == NextTasks(c2)
            IN [c |-> Dispatch(c2, n), put |-> s.put \o Tasks(c2, n)]

\* lines 1296-1319: one Fragment taken off data_queue; s.c is the coordinator,
\* s.put the tasks put so far in this drain.  A Fragment is marked late when
\* it is taken in an iteration that saw no live worker or saw stopping.
Received(s, d) ==
    LET c1 == [s.c EXCEPT !.active_downloads = @ - 1] IN
    IF ~c1.downloading \/ c1.stopping
       THEN [c |-> [c1 EXCEPT !.data = Append(@, [d EXCEPT !.late = TRUE])], put |-> s.put]
       ELSE LET c2 == [c1 EXCEPT !.data = Append(@, d),
                                 !.max_seqs = Max(@, d.x_head_seqnum)]
                n == NextTasks(c2)
            IN [c |-> Dispatch(c2, n), put |-> s.put \o Tasks(c2, n)]

RECURSIVE Drain(_, _)
\* lines 1294-1321: "while True: get_nowait" until queue.Empty
Drain(s, q) == IF q = <<>> THEN s ELSE Drain(Received(s, Head(q)), Tail(q))

\* lines 1333-1337: tasks put when nothing is in flight and nothing is held
Refill(k, c) == Max(0, info.active_threads[k] - c.active_downloads)

\* the end of an iteration of the main loop: stopping and downloading are
\* assigned anew at the head of the next, their values are dead until then
Iterated(c) == [c EXCEPT !.stopping = FALSE, !.downloading = FALSE]

\* lines 1282-1340: one pass from the loop head to the write loop, or to the
\* break, or round again after the sleep
Collect(k) ==
    LET c0 == [co[k] EXCEPT !.stopping = info.stopping,
                            !.downloading = \E w \in Workers : IsAlive(k, w)]
        s == Drain([c |-> c0, put |-> <<>>], data_queue[k])
        c == s.c
        n == IF ~c.stopping /\ c.active_downloads <= 0 THEN Refill(k, c) ELSE 0
    IN
    /\ co[k].pc = "loop"
    /\ data_queue' = [data_queue EXCEPT ![k] = <<>>]
    /\ IF ~c.downloading
          THEN /\ SetStream(k, [c EXCEPT !.pc = "done"])
               /\ seq_queue' = [seq_queue EXCEPT ![k] = @ \o s.put]
       ELSE IF c.data = <<>>
          THEN /\ SetStream(k, Iterated(Dispatch(c, n)))
               /\ seq_queue' = [seq_queue EXCEPT ![k] = @ \o s.put \o Tasks(c, n)]
       ELSE /\ SetStream(k, [c EXCEPT !.pc = "write"])
            /\ seq_queue' = [seq_queue EXCEPT ![k] = @ \o s.put]
    /\ UNCHANGED <<kinds, calc, main, info, wk, file, origin, clock, fetched>>

\* C1 mutant: the write loop takes any held Fragment not yet written
AnyInData(c) == {i \in 1..Len(c.data) : c.data[i].seq >= c.cur_frag}

\* lines 1344-1348: the held Fragments that are next for writing
NextInData(c) == {i \in 1..Len(c.data) : c.data[i].seq = c.cur_frag}

\* data.remove(d)
Remove(data, i) == [j \in 1..(Len(data) - 1) |-> IF j < i THEN data[j] ELSE data[j + 1]]

\* C8 mutant: replacement threads are started whether or not stopping was seen
RespawnStopping(k, c) ==
    IF (c.max_seqs - c.cur_seq) > RESPAWN_GAP
          /\ info.active_threads[k] < info.thread_count
       THEN StartThreads(k, c)
       ELSE SetStream(k, c) /\ UNCHANGED <<wk, info, seq_queue>>

\* lines 1403-1426: after a write attempt, threads are started again when the
\* stream is far ahead and fewer than thread_count are running
Respawn(k, c) ==
    IF ~c.stopping /\ (c.max_seqs - c.cur_seq) > RESPAWN_GAP
          /\ info.active_threads[k] < info.thread_count
       THEN StartThreads(k, c)
       ELSE SetStream(k, c) /\ UNCHANGED <<wk, info, seq_queue>>

\* what one write attempt appended to the file: the bytes of Fragment seq, all
\* of them or a part; at is the place in data the Fragment was found at
\* (history)
Chunk(seq, whole, at) == [seq |-> seq, whole |-> whole, at |-> at]

\* lines 1350-1391: the next Fragment is written whole
WriteFragment(k) ==
    LET c == co[k] IN
    /\ c.pc = "write"
    /\ c.tries > 0
    /\ \E i \in NextInData(c) :
          /\ \A j \in NextInData(c) : i <= j
          /\ file' = [file EXCEPT ![k] = Append(@, Chunk(c.data[i].seq, TRUE, i))]
          /\ Respawn(k, [c EXCEPT !.cur_frag = @ + 1, !.data = Remove(@, i),
                                  !.tries = WRITE_TRIES, !.fails = 0])
    /\ UNCHANGED <<kinds, calc, main, data_queue, origin, clock, fetched>>

\* the file after part of Fragment seq reached it; partial copies that follow
\* each other are recorded as one chunk
Torn(f, seq, i) ==
    IF f # <<>> /\ f[Len(f)] = Chunk(seq, FALSE, i)
       THEN f
       ELSE Append(f, Chunk(seq, FALSE, i))

\* C10 mutant: a failed attempt costs two of the tries
FailedWriteTwice(c) == [c EXCEPT !.tries = @ - 2, !.fails = @ + 1]

\* lines 1392-1393: one failed attempt; fails counts the failures in a row
\* (history)
FailedWrite(c) == [c EXCEPT !.tries = @ - 1, !.fails = @ + 1]

RECURSIVE KeepFailing(_)
\* "while i < len(data) and tries > 0" with every further attempt failing
KeepFailing(c) == IF c.tries > 0 THEN KeepFailing(FailedWrite(c)) ELSE c

\* lines 1350-1401: the write raises; torn says whether bytes of the Fragment
\* had reached the file before it did.  The first failure of a fragment is a
\* step of its own; the attempts after it either succeed (WriteFragment) or
\* fail to the last, in one step.
WriteFails(k, torn) ==
    LET c == co[k] IN
    /\ c.pc = "write"
    /\ c.tries > 0
    /\ \E i \in NextInData(c) :
          /\ \A j \in NextInData(c) : i <= j
          /\ file' = [file EXCEPT ![k] = IF torn THEN Torn(@, c.data[i].seq, i) ELSE @]
    /\ IF c.tries = WRITE_TRIES
          THEN /\ origin.faults < origin.allowed
               /\ origin' = [origin EXCEPT !.faults = @ + 1]
               /\ Respawn(k, FailedWrite(c))
          ELSE /\ UNCHANGED origin
               /\ Respawn(k, KeepFailing(c))
    /\ UNCHANGED <<kinds, calc, main, data_queue, clock, fetched>>

\* lines 1344 and 1428-1436: the write loop is over; the hourly refresh
WriteEnd(k) ==
    LET c == co[k]
        after == IF c.tries <= 0 THEN "giveup" ELSE "loop"
        e == Iterated(c)
    IN
    /\ c.pc = "write"
    /\ c.tries <= 0 \/ NextInData(c) = {}
    /\ \E d \in Elapse(World) :
          LET W == [World EXCEPT !.clock = Advance(clock, d)] IN
          IF ~info.is_unavailable /\ W.clock.t - info.last_updated > HOUR
             THEN \E out \in Outcomes(W) :
                     LET V == CallGetVideoInfo(W, out, 0) IN
                     /\ SetWorld(V)
                     /\ SetStream(k, [e EXCEPT !.pc = IF V.raised THEN "crashed" ELSE after])
             ELSE /\ SetWorld(W)
                  /\ SetStream(k, [e EXCEPT !.pc = after])
    /\ UNCHANGED <<kinds, calc, main, seq_queue, data_queue, wk, file>>

\* lines 1436-1441: ten write failures in a row
GiveUp(k) ==
    /\ co[k].pc = "giveup"
    /\ info' = [info EXCEPT !.stopping = TRUE]
    /\ SetStream(k, [co[k] EXCEPT !.pc = "join"])
    /\ UNCHANGED <<kinds, calc, main, seq_queue, data_queue, wk, file, origin, clock, fetched>>

\* lines 1443-1444: t.join() for every thread
Join(k) ==
    /\ co[k].pc = "join"
    /\ \A w \in Workers : ~IsAlive(k, w)
    /\ SetStream(k, [co[k] EXCEPT !.pc = "loop"])
    /\ UNCHANGED <<kinds, calc, main, info, seq_queue, data_queue, wk, file, origin, clock, fetched>>

(***************************************************************************)
(* The origin server, the clock and the user.                              *)
(***************************************************************************)
\* some download_stream thread has not ended
Running == \E k \in kinds : co[k].pc \notin {"none", "done", "crashed"}

\* the live stream produces its next fragment
Produce ==
    /\ Running
    /\ origin.live
    /\ origin.avail < MaxFrags
    /\ origin' = [origin EXCEPT !.avail = @ + 1]
    /\ UNCHANGED <<kinds, calc, main, info, seq_queue, data_queue, wk, co, file, clock, fetched>>

\* the broadcast ends
GoOffline ==
    /\ Running
    /\ origin.live
    /\ origin' = [origin EXCEPT !.live = FALSE]
    /\ UNCHANGED <<kinds, calc, main, info, seq_queue, data_queue, wk, co, file, clock, fetched>>

\* the signed URLs expire: the old ones answer 403 from now on
Expire ==
    /\ Running
    /\ ~origin.private
    /\ origin.faults < origin.allowed
    /\ origin' = [origin EXCEPT !.gen = @ + 1, !.faults = @ + 1]
    /\ UNCHANGED <<kinds, calc, main, info, seq_queue, data_queue, wk, co, file, clock, fetched>>

\* the video is made private or is removed: every URL answers 403
Privatise ==
    /\ Running
    /\ ~origin.private
    /\ origin.faults < origin.allowed
    /\ origin' = [origin EXCEPT !.private = TRUE, !.live = FALSE,
                                !.gen = @ + 1, !.faults = @ + 1]
    /\ UNCHANGED <<kinds, calc, main, info, seq_queue, data_queue, wk, co, file, clock, fetched>>

\* C12 mutant: the interrupt handler goes on to join without setting stopping
InterruptUnset ==
    /\ main.pc = "progress"
    /\ Running
    /\ ~info.stopping
    /\ origin.interrupts > 0
    /\ origin' = [origin EXCEPT !.interrupts = @ - 1]
    /\ main' = [main EXCEPT !.pc = "joining"]
    /\ UNCHANGED <<kinds, calc, info, seq_queue, data_queue, wk, co, file, clock, fetched>>

\* lines 2086-2089: KeyboardInterrupt in main's progress loop
Interrupt ==
    /\ main.pc = "progress"
    /\ Running
    /\ ~info.stopping
    /\ origin.interrupts > 0
    /\ origin' = [origin EXCEPT !.interrupts = @ - 1]
    /\ info' = [info EXCEPT !.stopping = TRUE]
    /\ main' = [main EXCEPT !.pc = "joining"]
    /\ UNCHANGED <<kinds, calc, seq_queue, data_queue, wk, co, file, clock, fetched>>

(***************************************************************************)
(* main: the first resolve, the progress loop and what follows it.         *)
(***************************************************************************)
\* what the first resolve of a session can meet: the statuses of
\* get_playable_player_response, a watch page without a player response or
\* without videoDetails, a video that is no livestream, a download of the
\* page that fails (get_player_response raises), and a broadcast that has
\* ended and cannot be downloaded here
Fatal == {"unplayable", "error", "unknown", "no_details", "not_live", "empty",
          "raise", "ok_ended"}

FirstOutcomes == {"ok", "offline"} \cup Fatal

\* the playability status a resolve that met out has seen
Status(out) ==
    CASE out \in {"ok", "ok_ended"} -> "OK"
      [] out = "offline" -> "LIVE_STREAM_OFFLINE"
      [] out = "unplayable" -> "UNPLAYABLE"
      [] out = "error" -> "ERROR"
      [] out = "unknown" -> "unknown"
      [] OTHER -> "none"

\* sys.exit(code); first_wait is gone with the call that held it
Exit(m, code) == [m EXCEPT !.pc = "exited", !.code = code, !.first_wait = TRUE]

\* lines 2044-2057: the kinds a download_stream thread is started for, audio
\* and, with a video download URL, video
Threads(inf) == {k \in Kinds : k = DTYPE_AUDIO \/ inf.download_url[k] # NoUrl}

\* lines 2003-2056: the temp directory is made and the download_stream
\* threads are started, each opening its file
Started(m, inf) ==
    [m EXCEPT !.pc = "progress", !.tmpdir = TRUE, !.first_wait = TRUE,
              !.ts = [k \in Kinds |-> IF k \in Threads(inf) THEN "tmp" ELSE "none"]]

\* lines 2125 and 2163-2166: the container of the final file
Container(inf) == IF inf.quality = AUDIO_ONLY THEN "m4a" ELSE "mp4"

\* C14 mutant: a resolve that met an unknown playability status starts the
\* download as one that met OK does
FirstResolveUnknown ==
    /\ main.pc = "resolve"
    /\ IF info.gvideo_ddl
          THEN /\ main' = Started(main, info)
               /\ co' = [k \in Kinds |-> IF k \in Threads(info) THEN NewStream ELSE co[k]]
               /\ UNCHANGED <<info, fetched>>
          ELSE \E out \in FirstOutcomes, wait \in BOOLEAN :
                  LET m == [main EXCEPT !.status = Status(out)] IN
                  /\ fetched' = Fetch(fetched, now)
                  /\ IF out \in {"ok", "unknown"}
                        THEN /\ info' = Playable(info, now, "ok", origin)
                             /\ main' = Started(m, info')
                             /\ co' = [k \in Kinds |->
                                         IF k \in Threads(info') THEN NewStream ELSE co[k]]
                     ELSE IF out = "offline" /\ (wait \/ ~main.first_wait)
                        THEN /\ main' = [m EXCEPT !.first_wait = FALSE]
                             /\ UNCHANGED <<info, co>>
                        ELSE /\ main' = Exit(m, 1)
                             /\ UNCHANGED <<info, co>>
    /\ UNCHANGED <<kinds, calc, seq_queue, data_queue, wk, file, origin, clock>>

\* lines 1972-1973 with 604-758 and 831-975: the first get_video_info, none
\* when a googlevideo URL was given.  An exception that leaves main ends the
\* process with code 1 as sys.exit(1) does.
\* The user is asked whether to wait for a scheduled stream
\* when the status is first met; get_playable_player_response then retries
\* until another status is met.
FirstResolve ==
    /\ main.pc = "resolve"
    /\ IF info.gvideo_ddl
          THEN /\ main' = Started(main, info)
               /\ co' = [k \in Kinds |-> IF k \in Threads(info) THEN NewStream ELSE co[k]]
               /\ UNCHANGED <<info, fetched>>
          ELSE \E out \in FirstOutcomes, wait \in BOOLEAN :
                  LET m == [main EXCEPT !.status = Status(out)] IN
                  /\ fetched' = Fetch(fetched, now)
                  /\ IF out = "ok"
                        THEN /\ info' = Playable(info, now, "ok", origin)
                             /\ main' = Started(m, info')
                             /\ co' = [k \in Kinds |->
                                         IF k \in Threads(info') THEN NewStream ELSE co[k]]
                     ELSE IF out = "offline" /\ (wait \/ ~main.first_wait)
                        THEN /\ main' = [m EXCEPT !.first_wait = FALSE]
                             /\ UNCHANGED <<info, co>>
                        ELSE /\ main' = Exit(m, 1)
                             /\ UNCHANGED <<info, co>>
    /\ UNCHANGED <<kinds, calc, seq_queue, data_queue, wk, file, origin, clock>>

\* lines 2063-2069 and 2124-2125: no download_stream thread is alive
Finish ==
    /\ main.pc = "progress"
    /\ ~Running
    /\ main' = [main EXCEPT !.pc = "finished"]
    /\ UNCHANGED <<kinds, calc, info, seq_queue, data_queue, wk, co, file, origin, clock, fetched>>

\* os.replace of the files that are in the temp directory
Moved(ts) == [k \in Kinds |-> IF ts[k] = "tmp" THEN "out" ELSE ts[k]]

\* tmpdir.cleanup(): what is still in the temp directory goes with it
Cleaned(ts) == [k \in Kinds |-> IF ts[k] = "tmp" THEN "gone" ELSE ts[k]]

\* cleanup_files(files)
Deleted(ts) == [k \in Kinds |-> IF ts[k] = "out" THEN "deleted" ELSE ts[k]]

\* lines 2090-2122: the threads are joined; then merge or not, save or not
FollowUp ==
    /\ main.pc = "joining"
    /\ ~Running
    /\ \E merge \in BOOLEAN, save \in BOOLEAN :
          /\ merge => ~save
          /\ main' = IF merge
                        THEN [main EXCEPT !.pc = "finished", !.merge = TRUE]
                        ELSE Exit([main EXCEPT !.save = save, !.tmpdir = FALSE,
                                     !.ts = Cleaned(IF save THEN Moved(@) ELSE @)], 2)
    /\ UNCHANGED <<kinds, calc, info, seq_queue, data_queue, wk, co, file, origin, clock, fetched>>

\* execute(ffmpeg_args): 0, the return code of a failed ffmpeg, or -1
Retcodes == {0, 1, -1}

\* C13 mutant: the intermediate files are deleted whatever execute returned
MuxAlwaysDeletes ==
    /\ main.pc = "finished"
    /\ \E how \in {"written", "missing", "run"}, retcode \in Retcodes :
          LET m == [main EXCEPT !.tmpdir = FALSE, !.ts = Cleaned(Moved(@)),
                                !.mfile = Container(info)] IN
          /\ how # "run" => retcode = 0
          /\ main' = IF how # "run" THEN Exit([m EXCEPT !.mux = how], 0)
                     ELSE IF retcode # 0
                        THEN Exit([m EXCEPT !.mux = "failed", !.ts = Deleted(@)], retcode)
                     ELSE Exit([m EXCEPT !.mux = "ok", !.ts = Deleted(@)], 0)
    /\ UNCHANGED <<kinds, calc, info, seq_queue, data_queue, wk, co, file, origin, clock, fetched>>

\* lines 2127-2231: "Download finished", the files are moved out of the temp
\* directory; then the ffmpeg command is written to a file, or ffmpeg is not
\* found, or it is run
Mux ==
    /\ main.pc = "finished"
    /\ \E how \in {"written", "missing", "run"}, retcode \in Retcodes :
          LET m == [main EXCEPT !.tmpdir = FALSE, !.ts = Cleaned(Moved(@)),
                                !.mfile = Container(info)] IN
          /\ how # "run" => retcode = 0
          /\ main' = IF how # "run" THEN Exit([m EXCEPT !.mux = how], 0)
                     ELSE IF retcode # 0 THEN Exit([m EXCEPT !.mux = "failed"], retcode)
                     ELSE Exit([m EXCEPT !.mux = "ok", !.ts = Deleted(@)], 0)
    /\ UNCHANGED <<kinds, calc, info, seq_queue, data_queue, wk, co, file, origin, clock, fetched>>

Main ==
    \/ FirstResolve
    \/ Finish
    \/ FollowUp
    \/ Mux

Worker(k, w) ==
    \/ WorkerStopped(k, w)
    \/ WorkerTake(k, w)
    \/ WorkerStarve(k, w)
    \/ WorkerTry(k, w)
    \/ WorkerFetched(k, w)
    \/ WorkerEmpty(k, w)
    \/ Worker403(k, w)
    \/ Worker404(k, w)
    \/ WorkerError(k, w)
    \/ WorkerHttpError(k, w)
    \/ WorkerExit(k, w)

Stream(k) ==
    \/ Seed(k)
    \/ Collect(k)
    \/ WriteFragment(k)
    \/ \E torn \in BOOLEAN : WriteFails(k, torn)
    \/ WriteEnd(k)
    \/ GiveUp(k)
    \/ Join(k)

Environment ==
    \/ Produce
    \/ GoOffline
    \/ Expire
    \/ Privatise
    \/ Interrupt

Next ==
    \/ \E k \in kinds : Stream(k)
    \/ \E k \in kinds, w \in Workers : Worker(k, w)
    \/ Environment
    \/ Main

Spec == Init /\ [][Next]_vars

(***************************************************************************)
(* Properties.                                                             *)
(***************************************************************************)
\* the sequence numbers of the Fragments written whole to a file, in file order
Written(f) == [i \in 1..Len(SelectSeq(f, LAMBDA ch : ch.whole)) |->
                  SelectSeq(f, LAMBDA ch : ch.whole)[i].seq]

\* C1: for each media kind, in every reachable state the sequence numbers of
\* the fragments written to the output file are exactly 0, 1, ..., cur_frag - 1
\* in that order, whatever order the fragments arrived in
C1_WrittenInOrder ==
    \A k \in kinds : Written(file[k]) = [i \in 1..co[k].cur_frag |-> i - 1]

\* C1 witness: two fragments are in the file, one of them found in the buffer
\* behind a fragment that had arrived before it
C1_OutOfOrderArrival ==
    \E k \in kinds :
       /\ Len(Written(file[k])) = 2
       /\ \E i \in 1..Len(file[k]) : file[k][i].whole /\ file[k][i].at > 1

\* every download_stream thread of the session has left its main loop
AllDone == \A k \in kinds : co[k].pc = "done"

\* C2: once every coordinator has returned with stopping unset, every
\* sequence number that was dispatched is written; stated for the sessions
\* without a fault and for the sequence numbers the broadcast produced, the
\* cases in which a Fragment of that number could be had
C2_DispatchedIsWritten ==
    AllDone /\ ~info.stopping /\ origin.faults = 0 =>
       \A k \in kinds : \A q \in 0..(co[k].cur_seq - 1) :
          q < origin.avail => q < co[k].cur_frag

\* C3: in a session without faults and interrupts whose broadcast has gone
\* offline, once the coordinators have returned the output of each kind holds
\* exactly the fragments 0..K the broadcast produced
C3_CompleteOutput ==
    AllDone /\ ~origin.live /\ origin.faults = 0 /\ ~info.stopping =>
       \A k \in kinds : Written(file[k]) = [i \in 1..origin.avail |-> i - 1]

C5_OneFetchPerWindow ==
    Len(fetched.times) = 2 => fetched.times[2] - fetched.times[1] >= RECHECK_TIME

\* C6: once is_unavailable is true it stays true, and no step fetches the
\* player response from then on
C6_UnavailableIsFinal ==
    [][info.is_unavailable =>
          /\ info'.is_unavailable
          /\ fetched'.times = fetched.times /\ fetched'.flip = fetched.flip]_vars

\* C6 witness: with is_unavailable set a thread has called get_video_info,
\* which returned at its is_unavailable check
C6_Refused == info.is_unavailable /\ fetched.refused

\* C7: in a session that was stopped and whose threads have all ended, every
\* coordinator has left its loop by the break and active_threads is 0
C7_StoppedWindsDown ==
    /\ info.stopping
    /\ \A k \in kinds : co[k].pc \in {"done", "crashed"}
    /\ \A k \in kinds, w \in Workers : ~IsAlive(k, w)
    => \A k \in kinds : co[k].pc = "done" /\ info.active_threads[k] = 0

\* C8: in a main-loop iteration that begins after stopping was set (the loop
\* head is still to read the flag, or the iteration has read it as set) the
\* coordinator puts no task on its task channel
C8_NoTaskOnceStopping ==
    [][\A k \in kinds :
          \/ co[k].pc = "loop" /\ info.stopping
          \/ co[k].pc = "write" /\ co[k].stopping
          => /\ co'[k].cur_seq = co[k].cur_seq
             /\ Len(seq_queue'[k]) <= Len(seq_queue[k])]_vars

\* C8 witness: an iteration that saw stopping is about to write while the
\* stream is more than RESPAWN_GAP ahead and a worker is missing
C8_RespawnHeldBack ==
    \E k \in kinds :
       /\ co[k].pc = "write" /\ co[k].stopping
       /\ NextInData(co[k]) # {}
       /\ (co[k].max_seqs - co[k].cur_seq) > RESPAWN_GAP
       /\ info.active_threads[k] < info.thread_count

\* C9: after stopping is set a worker ends at most one further GET, the one
\* in flight, and delivers at most one further Fragment
C9_OneGetInFlight ==
    \A k \in kinds, w \in Workers : wk[k][w].stop_gets <= 1 /\ wk[k][w].stop_frags <= 1

\* C9 witness: a worker has delivered the Fragment of the GET that was in
\* flight when stopping was set
C9_DeliveredInFlight ==
    \E k \in kinds, w \in Workers : wk[k][w].stop_frags = 1

\* C10: a coordinator is out of write tries only after WRITE_TRIES failed
\* attempts in a row at the fragment at cur_frag, every whole write restores
\* the tries, and a coordinator that gave up writes nothing more, has set
\* stopping and returns only when its workers have ended
C10_GivesUpAfterTenFailures ==
    /\ [](\A k \in kinds :
            /\ co[k].tries + co[k].fails = WRITE_TRIES
            /\ co[k].tries <= 0 => co[k].fails = WRITE_TRIES
            /\ co[k].pc = "join" => info.stopping
            /\ co[k].pc = "done" /\ co[k].tries <= 0 =>
                  info.stopping /\ \A w \in Workers : ~IsAlive(k, w))
    /\ [][\A k \in kinds :
            /\ co[k].tries <= 0 => file'[k] = file[k]
            /\ Len(Written(file'[k])) > Len(Written(file[k])) =>
                  co'[k].tries = WRITE_TRIES /\ co'[k].fails = 0]_vars

\* C10 witness: a coordinator that had written a fragment has given up on the
\* next and returned
C10_GaveUpAndReturned ==
    \E k \in kinds :
       co[k].pc = "done" /\ co[k].tries <= 0 /\ Len(Written(file[k])) >= 1

\* C11: a session in which a coordinator gave up after WRITE_TRIES write
\* failures in a row, the user not having interrupted it, ends with exit code
\* 1 and without the muxing step
C11_GiveUpExitsOne ==
    /\ main.pc = "exited"
    /\ origin.interrupts > 0
    /\ \E k \in kinds : co[k].tries <= 0
    => main.code = 1 /\ main.mux = "none"

PipelineStarted ==
    \/ \E k \in Kinds : co[k].pc # "none"
    \/ \E k \in Kinds, w \in Workers : wk[k][w].pc # "none"

\* C14 (as stated): no download pipeline is started unless a resolve has
\* returned playability status OK
C14_StartedOnlyAfterOK == PipelineStarted => main.status = "OK"

\* C14 (amended): unless a googlevideo URL was given, no download pipeline is
\* started before a resolve that met status OK; in_progress becomes true only
\* in such a resolve; and a session whose first resolve ends on UNPLAYABLE,
\* ERROR, an unknown status or OFFLINE with waiting declined exits with code 1,
\* nothing started and in_progress false
C14_StartedOnlyAfterOKOrDirect ==
    /\ [](/\ PipelineStarted => main.status = "OK" \/ info.gvideo_ddl
          /\ info.in_progress => main.status = "OK"
          /\ main.status \in {"UNPLAYABLE", "ERROR", "unknown", "LIVE_STREAM_OFFLINE"} =>
                /\ ~PipelineStarted /\ ~info.in_progress
                /\ main.pc = "exited" => main.code = 1)
    /\ [][main.status \in {"UNPLAYABLE", "ERROR", "unknown"} =>
             main.pc = "exited" /\ main'.pc = "exited"]_vars

\* C14 witness: the first resolve met a scheduled stream, the user declined to
\* wait and the session has ended with code 1
C14_DeclinedToWait ==
    main.pc = "exited" /\ main.status = "LIVE_STREAM_OFFLINE" /\ main.code = 1

\* ---------------------------------------------------------------------------
\* remove_sidx: the first chunk of every fragment goes through it when written
\* ---------------------------------------------------------------------------

\* A fragment is a sequence of cells.  An atom is a header of two cells, its
\* length field (four bytes in the file) and its name field (four bytes),
\* followed by payload cells; every cell carries the index of its atom and its
\* place in it, so that the cells of an output can be told apart.
HEADER == 2
\* the size of the chunks read from a fragment, in cells
BUF_SIZE == 6
\* bounds of the fragments looked at
MaxAtoms == 3
MaxAtomLen == 4
AtomNames == {"styp", "sidx", "moof"}

\* every atom has a payload: a sidx atom is never a bare header
Atoms == [name : AtomNames, len : (HEADER + 1)..MaxAtomLen]

RECURSIVE Cells(_, _)
Cells(atoms, i) ==
    IF i > Len(atoms) THEN <<>>
    ELSE [j \in 1..atoms[i].len |->
             [a |-> i, j |-> j, len |-> atoms[i].len, name |-> atoms[i].name]]
         \o Cells(atoms, i + 1)

Fragments == UNION {{Cells(as, 1) : as \in [1..n -> Atoms]} : n \in 1..MaxAtoms}

\* data[a:b] of Python, offsets counted from 0
Slice(data, a, b) ==
    SubSeq(data, a + 1, IF b > Len(data) THEN Len(data) ELSE b)

\* get_atoms: the loop from offset ofs on, atoms being the dictionary so far.
\* Reading a length past the end of the data, or where no length field is,
\* raises and ends the loop.
RECURSIVE get_atoms(_, _, _)
get_atoms(data, ofs, atoms) ==
    IF ofs >= Len(data) \/ data[ofs + 1].j # 1 THEN atoms
    ELSE LET alen  == data[ofs + 1].len
             aname == IF ofs + 1 < Len(data) THEN data[ofs + 2].name ELSE ""
             found == [n \in DOMAIN atoms \cup {aname} |->
                          IF n = aname THEN [ofs |-> ofs, len |-> alen]
                          ELSE atoms[n]]
         IN  IF alen > Len(data) THEN atoms
             ELSE IF ofs + alen + HEADER >= Len(data) THEN found
             ELSE get_atoms(data, ofs + alen, found)

NoAtoms == [n \in {} |-> [ofs |-> 0, len |-> 0]]

remove_sidx(data) ==
    LET atoms == get_atoms(data, 0, NoAtoms)
    IN  IF "sidx" \notin DOMAIN atoms THEN data
        ELSE LET ofs  == atoms["sidx"].ofs
                 rlen == atoms["sidx"].ofs + atoms["sidx"].len
             IN  Slice(data, 0, ofs) \o Slice(data, rlen, Len(data))

\* the write loop: the first chunk goes through remove_sidx, the chunks after
\* it are written as read
WriteData ==
    /\ calc.op = "read"
    /\ calc' = [calc EXCEPT !.op = "written",
                   !.out = remove_sidx(Slice(calc.data, 0, BUF_SIZE))
                           \o Slice(calc.data, BUF_SIZE, Len(calc.data))]
    /\ UNCHANGED <<kinds, info, seq_queue, data_queue, wk, co, file, origin, clock,
                   fetched, main>>

\* no download session runs while a function is looked at by itself
NoSession ==
    /\ kinds = {DTYPE_AUDIO}
    /\ info = NewInfo(1)
    /\ seq_queue = [k \in Kinds |-> <<>>]
    /\ data_queue = [k \in Kinds |-> <<>>]
    /\ wk = [k \in Kinds |-> [w \in Workers |-> NoThread]]
    /\ co = [k \in Kinds |-> [NewStream EXCEPT !.pc = "none"]]
    /\ file = [k \in Kinds |-> <<>>]
    /\ origin = [avail |-> 1, live |-> TRUE, gen |-> 0, private |-> FALSE, lead |-> 0,
                 faults |-> 0, allowed |-> 0, interrupts |-> 0]
    /\ clock = [t |-> 0, ticks |-> 0]
    /\ fetched = [times |-> <<>>, flip |-> FALSE, refused |-> FALSE]
    /\ main = NewMain

SidxInit ==
    /\ NoSession
    /\ \E data \in Fragments : calc = [op |-> "read", data |-> data, out |-> <<>>]

SidxNext == WriteData

SidxSpec == SidxInit /\ [][SidxNext]_vars

\* the cells at which a sidx atom of the fragment starts
SidxAt(data) == {i \in 1..Len(data) : data[i].j = 1 /\ data[i].name = "sidx"}

\* the sidx atoms that lie in the first chunk of the fragment
SidxInChunk(data) == {i \in SidxAt(data) : i + data[i].len - 1 <= BUF_SIZE}

\* C15: a fragment whose first chunk holds a top-level sidx atom is written
\* without the cells of that atom and with every other cell, in order; a
\* fragment whose first chunk holds no such atom is written as it is.  Stated
\* for the fragments with at most one sidx atom.
C15_SidxRemoved ==
    calc.op = "written" /\ Cardinality(SidxAt(calc.data)) <= 1 =>
        /\ \A i \in SidxInChunk(calc.data) :
              calc.out = Slice(calc.data, 0, i - 1)
                         \o Slice(calc.data, i - 1 + calc.data[i].len, Len(calc.data))
        /\ SidxInChunk(calc.data) = {} => calc.out = calc.data

\* ---------------------------------------------------------------------------
\* the selection of the video quality in get_video_info
\* ---------------------------------------------------------------------------

\* the keys of VIDEO_LABEL_ITAGS in the order of the table, cut down to two
\* video labels
VIDEO_LABEL_ITAGS == <<"audio_only", "720p", "1080p60">>
VideoLabels == {"720p", "1080p60"}
Codecs == {"h264", "vp9"}
DEFAULT_VIDEO_QUALITY == "best"
\* the longest list of preferences looked at
MaxPrefs == 2

\* list.index
RECURSIVE IndexFrom(_, _, _)
IndexFrom(list, x, i) ==
    IF i > Len(list) THEN 0 ELSE IF list[i] = x THEN i ELSE IndexFrom(list, x, i + 1)
itags_index(x) == IndexFrom(VIDEO_LABEL_ITAGS, x, 1)

\* what the user can write between two slashes: a label, a label with a
\* blank before it, best in capitals, or something that is no label
Words == {"audio_only", "720p", " 720p", "1080p60", "BEST", "4k"}
\* lower() and strip() of a word
Stripped(w) ==
    CASE w = " 720p" -> "720p"
      [] w = "BEST"  -> "best"
      [] OTHER       -> w

RECURSIVE SeqsUpTo(_, _)
SeqsUpTo(S, n) ==
    IF n = 0 THEN {<<>>}
    ELSE LET shorter == SeqsUpTo(S, n - 1)
         IN  shorter \cup {Append(q, x) : q \in shorter, x \in S}

RECURSIVE Elements(_, _)
Elements(list, i) == IF i > Len(list) THEN {} ELSE {list[i]} \cup Elements(list, i + 1)

\* parse_quality_list: the words of the list that are a label of formats, or
\* best, in the order given; the whole list is put in lower case first
RECURSIVE parse_quality_list(_, _, _)
parse_quality_list(formats, quality, i) ==
    IF i > Len(quality) THEN <<>>
    ELSE LET q == Stripped(quality[i])
         IN  (IF q \in Elements(formats, 1) \/ q = "best" THEN <<q>> ELSE <<>>)
             \o parse_quality_list(formats, quality, i + 1)

\* qualities.insert(idx, qlabel), idx being the place of the first label of
\* the list that stands after qlabel in the table
RECURSIVE InsertAt(_, _, _)
InsertAt(qualities, qlabel, i) ==
    IF i > Len(qualities) \/ itags_index(qualities[i]) > itags_index(qlabel)
    THEN SubSeq(qualities, 1, i - 1) \o <<qlabel>> \o SubSeq(qualities, i, Len(qualities))
    ELSE InsertAt(qualities, qlabel, i + 1)

\* the list of the qualities of the stream, the best one last
RECURSIVE Qualities(_, _, _)
Qualities(formats, i, qualities) ==
    IF i > Len(formats) THEN qualities
    ELSE Qualities(formats, i + 1, InsertAt(qualities, formats[i], 1))

\* lines 922-943: what a round of the for loop that ends the search has
\* stored.  quality is info.quality, the itag VIDEO_LABEL_ITAGS has for the
\* label and the codec (for audio_only the itag 0, written with no codec);
\* video_url is the itag whose URL is the video download URL, none for "";
\* audio_url is the itag whose URL is the audio download URL.
Found(q, codec) ==
    [found |-> TRUE, label |-> q, codec |-> codec, quality |-> <<q, codec>>,
     video_url |-> IF q = "audio_only" THEN <<>> ELSE <<q, codec>>,
     audio_url |-> AUDIO_ITAG]

\* the for loop is over and no round has ended the search; every round has
\* stored the audio URL (line 924)
NotFound ==
    [found |-> FALSE, label |-> "", codec |-> "", quality |-> <<>>, video_url |-> <<>>,
     audio_url |-> AUDIO_ITAG]

\* the codec taken with VP9 preferred whether or not --vp9 was given
CodecVp9First(c, q) ==
    IF <<q, "vp9">> \in c.dl_urls THEN "vp9"
    ELSE IF <<q, "h264">> \in c.dl_urls THEN "h264"
    ELSE ""

\* lines 932-943: the codec whose itag is taken for the video label q, none
\* when neither test holds
Codec(c, q) ==
    IF c.vp9 /\ <<q, "vp9">> \in c.dl_urls THEN "vp9"
    ELSE IF <<q, "h264">> \in c.dl_urls THEN "h264"
    ELSE ""

\* the for loop with best read as the first label of the list of qualities
RECURSIVE PickWorst(_, _, _)
PickWorst(c, qualities, i) ==
    IF i > Len(c.selected) THEN NotFound
    ELSE LET q == IF c.selected[i] = "best" THEN qualities[1]
                  ELSE c.selected[i]
         IN  IF q = "audio_only" THEN Found(q, "")
             ELSE IF Codec(c, q) # "" THEN Found(q, Codec(c, q))
             ELSE PickWorst(c, qualities, i + 1)

\* the for loop over selected_qualities, from place i on: the quality found,
\* or none
RECURSIVE Pick(_, _, _)
Pick(c, qualities, i) ==
    IF i > Len(c.selected) THEN NotFound
    ELSE LET q == IF c.selected[i] = "best" THEN qualities[Len(qualities)]
                  ELSE c.selected[i]
         IN  IF q = "audio_only" THEN Found(q, "")
             ELSE IF Codec(c, q) # "" THEN Found(q, Codec(c, q))
             ELSE Pick(c, qualities, i + 1)

\* the qualities given on the command line are parsed against the whole table
ParseSelected ==
    /\ calc.op = "args"
    /\ calc' = [calc EXCEPT !.op = "select",
                   !.selected = parse_quality_list(VIDEO_LABEL_ITAGS, calc.typed, 1)]
    /\ UNCHANGED <<kinds, info, seq_queue, data_queue, wk, co, file, origin, clock,
                   fetched, main>>

\* get_quality_from_user: asks until the answer holds a quality of the stream;
\* an empty answer stands for the default
GetQualityFromUser ==
    /\ calc.op = "select"
    /\ calc.selected = <<>>
    /\ \E typed \in SeqsUpTo(Words, MaxPrefs) :
          LET quality  == IF typed = <<>> THEN <<DEFAULT_VIDEO_QUALITY>> ELSE typed
              selected == parse_quality_list(
                              Qualities(calc.formats, 1, <<"audio_only">>), quality, 1)
          IN  /\ selected # <<>>
              /\ calc' = [calc EXCEPT !.typed = typed, !.selected = selected]
    /\ UNCHANGED <<kinds, info, seq_queue, data_queue, wk, co, file, origin, clock,
                   fetched, main>>

\* one round of the while loop with a list of preferences
SelectQuality ==
    /\ calc.op = "select"
    /\ calc.selected # <<>>
    /\ LET got == Pick(calc, Qualities(calc.formats, 1, <<"audio_only">>), 1)
       IN  calc' = IF got.found
                   THEN [calc EXCEPT !.op = "found", !.quality = got]
                   ELSE [calc EXCEPT !.selected = <<>>, !.asked = TRUE]
    /\ UNCHANGED <<kinds, info, seq_queue, data_queue, wk, co, file, origin, clock,
                   fetched, main>>

\* the streams looked at: the labels of the video/mp4 formats of the stream in
\* any order, the itags a URL was found for, the --vp9 switch, and what was
\* typed after -q
QualityInit ==
    /\ NoSession
    /\ \E formats \in {f \in SeqsUpTo(VideoLabels, 2) : Cardinality(Elements(f, 1)) = Len(f)},
          dl_urls \in SUBSET (VideoLabels \X Codecs), vp9 \in BOOLEAN,
          typed \in SeqsUpTo(Words, MaxPrefs) :
          calc = [op |-> "args", typed |-> typed, selected |-> <<>>, formats |-> formats,
                  dl_urls |-> dl_urls, vp9 |-> vp9, asked |-> FALSE,
                  quality |-> [NotFound EXCEPT !.audio_url = 0]]

QualityNext == ParseSelected \/ GetQualityFromUser \/ SelectQuality

QualitySpec == QualityInit /\ [][QualityNext]_vars

\* a URL the session may use is there for the label: audio only needs none,
\* a video label needs its h264 URL, or its VP9 URL when --vp9 was given
Usable(c, label) ==
    \/ label = "audio_only"
    \/ <<label, "h264">> \in c.dl_urls
    \/ c.vp9 /\ <<label, "vp9">> \in c.dl_urls

\* the label of the stream that stands last in the table
Highest(c) ==
    CHOOSE l \in {"audio_only"} \cup Elements(c.formats, 1) :
        \A m \in {"audio_only"} \cup Elements(c.formats, 1) :
            itags_index(m) <= itags_index(l)

Meant(c, q) == IF q = "best" THEN Highest(c) ELSE q

\* C16: a round of the selection with a list of preferences ends with the
\* first preference of the list a URL is there for, best standing for the
\* highest label of the stream; with no such preference no quality is chosen
\* and the list is emptied, so that the user is asked.
C16_FirstAvailablePreference ==
    [][calc.op = "select" /\ calc.selected # <<>> /\ calc' # calc =>
         LET ok == {i \in 1..Len(calc.selected) :
                       Usable(calc, Meant(calc, calc.selected[i]))}
         IN  IF ok = {}
             THEN calc'.op = "select" /\ calc'.selected = <<>> /\ ~calc'.quality.found
             ELSE /\ calc'.op = "found"
                  /\ \E i \in ok :
                        /\ \A j \in ok : i <= j
                        /\ calc'.quality.label = Meant(calc, calc.selected[i])]_vars

\* the user was asked again, and of the two preferences then given the first
\* had no URL and the second was taken
C16_SecondAfterAsking ==
    /\ calc.op = "found"
    /\ calc.asked
    /\ Len(calc.selected) = 2
    /\ ~Usable(calc, Meant(calc, calc.selected[1]))
    /\ calc.selected[1] = "best"
    /\ calc.quality.label = calc.selected[2]

\* C17: a worker that takes a task whose sequence number is the known maximum
\* goes on to the GET of that fragment (stopping unset), whether the stream is
\* live or not.  Stated for the sessions started from a video URL.
C17_FinalFetchIsMade ==
    [][\A k \in kinds, w \in Workers :
          /\ ~info.gvideo_ddl
          /\ wk[k][w].pc = "get"
          /\ wk'[k][w].pc # "get"
          /\ seq_queue[k] # <<>>
          /\ seq_queue'[k] = Tail(seq_queue[k])
          /\ Head(seq_queue[k])[1] = Head(seq_queue[k])[2]
          /\ ~info.stopping
          => wk'[k][w].pc = "fetch" /\ wk'[k][w].seq = Head(seq_queue[k])[1]]_vars

\* the step is the answer 404 to the GET of worker w of kind k: the URL is
\* good, the fragment is not there, and no fault is counted
Is404(k, w) ==
    /\ wk[k][w].pc = "fetch"
    /\ wk'[k][w] # wk[k][w]
    /\ wk[k][w].url = origin.gen
    /\ wk[k][w].seq >= origin.avail
    /\ origin'.faults = origin.faults

C19_NoTaskPastMax ==
    [][\A k \in kinds :
          /\ ~info.gvideo_ddl
          /\ ~info.is_live
          /\ co'[k].max_seqs > 0
          /\ co[k].cur_seq > co'[k].max_seqs
          => /\ co'[k].cur_seq = co[k].cur_seq
             /\ Len(seq_queue'[k]) <= Len(seq_queue[k])]_vars

\* the sessions in which the video can be made private: those of one worker
\* that meet disturbances; the lead of X-Head-Seqnum is of no matter to a
\* worker that is answered 403
PrivatedInit ==
    /\ Init
    /\ kinds = {DTYPE_AUDIO}
    /\ info.thread_count = 1
    /\ origin.allowed > 0
    /\ origin.lead = 0

\* every thread that can take a step takes one in the end: the download
\* threads are scheduled by the interpreter, and none of them waits for
\* another except where its guard says so
FairSpec ==
    /\ PrivatedInit
    /\ [][Next]_vars
    /\ WF_vars(Stream(DTYPE_AUDIO))
    /\ \A w \in Workers : WF_vars(Worker(DTYPE_AUDIO, w))

\* the download of every kind has ended
Terminated == \A k \in kinds : co[k].pc \in {"done", "crashed"}

\* C20: with is_unavailable set, a worker whose GET is answered 403 (the URL is
\* stale and no other fault is counted in the step; every URL is stale, the
\* video being private) leaves at the FRAG_MAX_TRIES-th failed attempt
\* at its fragment and, before that, stays on the fragment with one try more
\* counted; the coordinators terminate in the end; and what was written to an
\* output file stays in it.
C20_UnavailableWindsDown ==
    /\ [][\A k \in kinds, w \in Workers :
             /\ info.is_unavailable
             /\ wk[k][w].pc = "fetch"
             /\ wk'[k][w] # wk[k][w]
             /\ wk[k][w].url # origin.gen
             /\ origin'.faults = origin.faults
             => \/ wk'[k][w].pc = "exit"
                \/ /\ wk'[k][w].pc = "try"
                   /\ wk'[k][w].seq = wk[k][w].seq
                   /\ wk'[k][w].tries = wk[k][w].tries + 1
                   /\ wk'[k][w].tries < FRAG_MAX_TRIES]_vars
    /\ [][\A k \in kinds :
             /\ Len(file'[k]) >= Len(file[k])
             /\ SubSeq(file'[k], 1, Len(file[k])) = file[k]]_vars
    /\ (info.is_unavailable ~> Terminated)

\* a session whose video was made private after a fragment was written: the
\* coordinators have ended and the fragment is in the file
C20_PrivatedKeepsWritten ==
    /\ info.is_unavailable
    /\ ~info.stopping
    /\ Terminated
    /\ \E k \in kinds : Written(file[k]) # <<>>

\* ---------------------------------------------------------------------------
\* a GET of a worker and its answer, from the states a session in progress
\* can be in when the GET is sent
\* ---------------------------------------------------------------------------

\* the task of the worker: far from a known maximum, within two of it, or
\* taken before any maximum was known
FetchTasks == {<<0, -1>>, <<1, -1>>, <<2, -1>>, <<0, 3>>, <<1, 3>>, <<2, 3>>}

\* One worker of one kind has sent the GET of its task.  The stream was
\* resolved at time 0; since then the URLs may have expired and been refreshed
\* (shared), or expired again (gen), the broadcast may have ended or been made
\* private, a refresh may have seen it so, the user may have interrupted, and
\* earlier attempts at the fragment may have failed.
FetchingInit ==
    /\ kinds = {DTYPE_AUDIO}
    /\ seq_queue = [k \in Kinds |-> <<>>]
    /\ data_queue = [k \in Kinds |-> <<>>]
    /\ file = [k \in Kinds |-> <<>>]
    /\ fetched = [times |-> <<0>>, flip |-> FALSE, refused |-> FALSE]
    /\ main = [Started(NewMain, Resolved(NewInfo(1), 0)) EXCEPT !.status = "OK"]
    /\ calc = Idle
    /\ \E shared \in 0..1, gen \in 0..2, url \in 0..1, task \in FetchTasks,
          stopping \in BOOLEAN, is_live \in BOOLEAN, is_unavailable \in BOOLEAN,
          live \in BOOLEAN, private \in BOOLEAN, allowed \in 0..1,
          t \in {0, RECHECK_TIME}, ticks \in 0..1,
          tries \in {0, FRAG_MAX_TRIES - 1}, full_retries \in {1, FULL_RETRIES},
          is_403 \in BOOLEAN :
          /\ url <= shared /\ shared <= gen /\ gen <= shared + 1
          /\ is_unavailable => ~is_live /\ private
          /\ private => ~live /\ shared < gen
          /\ is_403 => tries > 0
          /\ info = [Resolved(NewInfo(1), shared) EXCEPT
                        !.in_progress = TRUE, !.stopping = stopping,
                        !.is_live = is_live, !.is_unavailable = is_unavailable,
                        !.expires_in_seconds = USUAL_EXPIRES - 1 - shared,
                        !.target_duration = TargetDurationSec(shared),
                        !.active_threads = [k \in Kinds |->
                                               IF k = DTYPE_AUDIO THEN 1 ELSE 0]]
          /\ origin = [avail |-> 2, live |-> live, gen |-> gen, private |-> private,
                       lead |-> 0, faults |-> 0, allowed |-> allowed, interrupts |-> 0]
          /\ clock = [t |-> t, ticks |-> ticks]
          /\ wk = [k \in Kinds |-> [w \in Workers |->
                      IF k = DTYPE_AUDIO /\ w = 1
                         THEN [NewThread(url) EXCEPT !.pc = "fetch", !.seq = task[1],
                                  !.max_seq = task[2], !.tries = tries,
                                  !.full_retries = full_retries, !.is_403 = is_403]
                         ELSE NoThread]]
          /\ co = [k \in Kinds |->
                      IF k = DTYPE_AUDIO
                         THEN [NewStream EXCEPT !.pc = "loop", !.cur_seq = task[1] + 1,
                                  !.cur_frag = task[1], !.active_downloads = 1,
                                  !.max_seqs = task[2]]
                         ELSE [NewStream EXCEPT !.pc = "none"]]

\* the answers a GET can meet
Answered(k, w) ==
    \/ WorkerFetched(k, w)
    \/ WorkerEmpty(k, w)
    \/ Worker403(k, w)
    \/ Worker404(k, w)
    \/ WorkerError(k, w)
    \/ WorkerHttpError(k, w)

FetchingNext == \E k \in kinds, w \in Workers : Answered(k, w) \/ WorkerTry(k, w)

FetchingSpec == FetchingInit /\ [][FetchingNext]_vars

\* the step is the answer 403 to the GET of worker w of kind k: its URL is
\* stale, the session was started from a video URL, and the step counts no
\* fault but those of a resolve
Is403(k, w) ==
    /\ wk[k][w].pc = "fetch"
    /\ wk'[k][w] # wk[k][w]
    /\ wk[k][w].url # origin.gen
    /\ ~info.gvideo_ddl
    /\ origin'.faults = origin.faults \/ fetched' # fetched

\* C21: a worker answered 403 whose URL differs from the shared URL of its
\* kind takes the shared URL over and get_video_info is not called: nothing
\* of info, of the history of fetches, of the origin or of the clock changes,
\* and the 403 is one failed try.  A worker whose URL is the shared one calls
\* get_video_info: the player response is fetched when none of the early
\* returns applies at the time the step ends, and is not fetched otherwise.
\* (With the last try failed the block of the exhausted tries follows in the
\* same step, which has a refresh of its own.)
C21_AdoptOrResolve ==
    [][\A k \in kinds, w \in Workers :
          Is403(k, w) /\ wk[k][w].tries + 1 < FRAG_MAX_TRIES =>
             LET r == wk[k][w] IN
             IF info.download_url[k] # r.url
                THEN /\ wk'[k][w].url = info.download_url[k]
                     /\ wk'[k][w].pc = "try"
                     /\ wk'[k][w].tries = r.tries + 1
                     /\ info' = info /\ fetched' = fetched
                     /\ origin' = origin /\ clock' = clock
                ELSE IF Resolves(info, clock'.t)
                   THEN fetched'.flip # fetched.flip
                   ELSE fetched'.flip = fetched.flip]_vars

\* a worker has taken over the shared URL, which another thread's refresh had
\* stored, at a time at which a call of get_video_info would have fetched the
\* player response: none was fetched
C21_AdoptedSharedUrl ==
    \E k \in kinds, w \in Workers :
        /\ wk[k][w].pc = "try"
        /\ wk[k][w].is_403
        /\ wk[k][w].tries = 1
        /\ wk[k][w].url = info.download_url[k]
        /\ wk[k][w].url = origin.gen
        /\ origin.gen = 1
        /\ Resolves(info, now)
        /\ fetched.times = <<0>>

\* ---------------------------------------------------------------------------
\* get_playable_player_response polling a scheduled stream with --retry-stream
\* ---------------------------------------------------------------------------

\* the most resolves that answer LIVE_STREAM_OFFLINE
MaxPolls == 3
\* the values of --retry-stream looked at, in seconds
RetrySecs == 1..3
\* pollDelayMs of a response: absent, or a number of milliseconds
PollDelays == {<<>>, <<0>>, <<999>>, <<1000>>, <<2500>>, <<3000>>}

\* int(int(poll_delay_ms) / 1000)
poll_delay(ms) == ms \div 1000

\* the retry interval lowered to the poll delay, never raised
ClampedDown(retry_secs, delay) ==
    IF delay = <<>> THEN retry_secs
    ELSE IF retry_secs > poll_delay(delay[1]) THEN poll_delay(delay[1]) ELSE retry_secs

\* lines 687-695: info.retry_secs after the first OFFLINE response
Clamped(retry_secs, delay) ==
    IF delay = <<>> THEN retry_secs
    ELSE IF retry_secs < poll_delay(delay[1]) THEN poll_delay(delay[1]) ELSE retry_secs

\* lines 666-700 with info.retry_secs > 0: a resolve answers
\* LIVE_STREAM_OFFLINE before the download has begun; the thread sleeps
\* info.retry_secs and resolves again.  given is the value of --retry-stream,
\* first_delay the pollDelayMs of the first such response, delay that of the
\* last, slept the time last slept (history).
PollOffline ==
    /\ calc.op = "poll"
    /\ calc.polls < MaxPolls
    /\ \E delay \in PollDelays :
          LET secs == IF calc.first_wait THEN Clamped(calc.retry_secs, delay)
                      ELSE calc.retry_secs
          IN  calc' = [calc EXCEPT !.retry_secs = secs, !.first_wait = FALSE,
                          !.first_delay = IF calc.first_wait THEN delay ELSE @,
                          !.delay = delay, !.slept = secs, !.polls = @ + 1]
    /\ UNCHANGED <<kinds, info, seq_queue, data_queue, wk, co, file, origin, clock,
                   fetched, main>>

\* a resolve answers OK: the polling is over
PollPlayable ==
    /\ calc.op = "poll"
    /\ calc' = [calc EXCEPT !.op = "playable"]
    /\ UNCHANGED <<kinds, info, seq_queue, data_queue, wk, co, file, origin, clock,
                   fetched, main>>

PollInit ==
    /\ NoSession
    /\ \E secs \in RetrySecs :
          calc = [op |-> "poll", given |-> secs, retry_secs |-> secs, first_wait |-> TRUE,
                  first_delay |-> <<>>, delay |-> <<>>, slept |-> 0, polls |-> 0]

PollNext == PollOffline \/ PollPlayable

PollSpec == PollInit /\ [][PollNext]_vars

C23_TaskWithinKnownMax ==
    \A k \in kinds : \A i \in 1..Len(seq_queue[k]) :
        seq_queue[k][i][2] >= 0 => seq_queue[k][i][1] <= seq_queue[k][i][2] + 1

\* ---------------------------------------------------------------------------
\* A session of several workers on a broadcast whose head is far ahead
\* ---------------------------------------------------------------------------

\* how far X-Head-Seqnum is ahead of the fragments fetched in such a session
LateLead == 105

\* main before its first get_video_info, --threads at its highest, one kind;
\* the session meets no fault and no interrupt
LateInit ==
    /\ kinds = {DTYPE_AUDIO}
    /\ info = NewInfo(MaxThreads)
    /\ origin = [avail |-> 1, live |-> TRUE, gen |-> 0, private |-> FALSE,
                 lead |-> LateLead, faults |-> 0, allowed |-> 0, interrupts |-> 0]
    /\ clock = [t |-> 0, ticks |-> MaxTicks]
    /\ seq_queue = [k \in Kinds |-> <<>>]
    /\ data_queue = [k \in Kinds |-> <<>>]
    /\ wk = [k \in Kinds |-> [w \in Workers |-> NoThread]]
    /\ co = [k \in Kinds |-> [NewStream EXCEPT !.pc = "none"]]
    /\ file = [k \in Kinds |-> <<>>]
    /\ fetched = [times |-> <<>>, flip |-> FALSE, refused |-> FALSE]
    /\ main = NewMain
    /\ calc = Idle

\* the steps of a session that nothing disturbs
LateNext ==
    \/ \E k \in kinds : Stream(k)
    \/ \E k \in kinds, w \in Workers : Worker(k, w)
    \/ Produce
    \/ GoOffline
    \/ FirstResolve
    \/ Finish
    \/ Mux

LateSpec == LateInit /\ [][LateNext]_vars

\* C24: the tasks put and not yet answered by a received Fragment, as
\* download_stream counts them in active_downloads, are at most
\* thread_count + 1 at every moment
C24_ActiveDownloadsBounded ==
    \A k \in kinds : co[k].active_downloads <= info.thread_count + 1

\* C25: when the coordinator of a kind has left its main loop because every
\* worker of the kind has exited, with stopping unset, no write having failed
\* and no thread ended by an exception, none of the Fragments it holds is the
\* one that continues the written prefix (seq = cur_frag): each such Fragment
\* was written before the file is closed.  Stated for the sessions started from
\* a video URL.
C25_NextFragmentNotDiscarded ==
    \A k \in kinds :
       /\ co[k].pc = "done"
       /\ ~info.gvideo_ddl
       /\ ~info.stopping
       /\ co[k].fails = 0
       /\ origin.faults = 0
       /\ \A w \in Workers : wk[k][w].pc = "none"
       => \A i \in 1..Len(co[k].data) : co[k].data[i].seq # co[k].cur_frag

\* the step is a transient failure of the GET of worker w of kind k: a
\* timeout or a reset connection, an HTTP error other than 403 and 404, or an
\* answer without a body; these are the steps of a worker that count a fault
\* and fetch no player response
Transient(k, w) ==
    /\ wk[k][w].pc = "fetch"
    /\ wk'[k][w] # wk[k][w]
    /\ origin'.faults = origin.faults + 1
    /\ fetched' = fetched

\* the worker goes on with the fragment it has: one more try counted, the
\* sleep begun
Retried(r, x) == x.pc = "try" /\ x.seq = r.seq /\ x.tries = r.tries + 1

\* C26: a transient failure that is not the last of the tries is
\* answered by another try at the same fragment, and the try is made unless
\* stopping is set
C26_TransientRetried ==
    [][\A k \in kinds, w \in Workers :
          /\ Transient(k, w) /\ wk[k][w].tries + 1 < FRAG_MAX_TRIES
                => Retried(wk[k][w], wk'[k][w])
          /\ wk[k][w].pc = "try" /\ wk'[k][w] # wk[k][w] /\ ~info.stopping
                => wk'[k][w] = [wk[k][w] EXCEPT !.pc = "fetch"]]_vars

\* C27: a worker whose GET has failed while the stream is known to be over,
\* the video still available and the fragment more than two below the maximum
\* its task carries, goes on with that fragment, whether or not the failure
\* was the last of the FRAG_MAX_TRIES tries: it is at the fragment still, in
\* its sleep or at a GET, and it has not gone back to the task queue.  (Every
\* task is begun with full_retries = 3, so the budget is never used up at the
\* first exhaustion.)
C27_SameSeqAfterExhaustion ==
    [][\A k \in kinds, w \in Workers :
          /\ wk[k][w].pc = "fetch"
          /\ wk'[k][w] # wk[k][w]
          /\ data_queue'[k] = data_queue[k]
          /\ wk'[k][w].pc # "crashed"
          /\ ~info'.is_live
          /\ ~info'.is_unavailable
          /\ wk[k][w].max_seq > -1
          /\ wk[k][w].seq < wk[k][w].max_seq - 2
          /\ wk[k][w].full_retries > 1
          => /\ wk'[k][w].pc \in {"try", "fetch"}
             /\ wk'[k][w].seq = wk[k][w].seq]_vars

\* C28: while the coordinator of a kind is in its main loop, the stream is
\* live, stopping is unset and nothing has disturbed the session, one worker
\* of the kind at least has not decided to leave: the exits of starved
\* workers, the only exits there are then, leave one of them running
C28_OneWorkerStays ==
    \A k \in kinds :
       /\ co[k].pc \in {"loop", "write"}
       /\ info.is_live
       /\ ~info.stopping
       /\ origin.faults = 0
       => \E w \in Workers : wk[k][w].pc \in {"get", "fetch", "try"}

\* the worker is in its loop: waiting for a task, at a GET or in the sleep
\* between two tries
InLoop(r) == r.pc \in {"get", "fetch", "try"}

\* C29: a worker thread that leaves its loop, in whatever way the thread
\* ends, does so with stopping set, or with is_live false as the step leaves
\* it, or starved while more than one thread of its kind is counted; and a
\* worker whose GET has failed goes on with the same fragment while is_live
\* is true and stopping is unset
C29_LeavesOnlyWhen ==
    [][\A k \in kinds, w \in Workers :
          /\ InLoop(wk[k][w]) /\ ~InLoop(wk'[k][w])
                => \/ info.stopping
                   \/ ~info'.is_live
                   \/ /\ wk[k][w].pc = "get"
                      /\ seq_queue[k] = <<>>
                      /\ info.active_threads[k] > 1
          /\ wk[k][w].pc = "fetch" /\ wk'[k][w] # wk[k][w]
             /\ data_queue'[k] = data_queue[k] /\ info'.is_live /\ ~info.stopping
             /\ InLoop(wk'[k][w])
                => wk'[k][w].seq = wk[k][w].seq]_vars

\* ---------------------------------------------------------------------------
\* get_video_info taken by itself
\* ---------------------------------------------------------------------------

\* the states get_video_info can be called in: before the first resolve or
\* during the download, the video live, over or made private; was is info as
\* the call found it, out what the player response was
ResolveInit ==
    /\ kinds = {DTYPE_AUDIO}
    /\ seq_queue = [k \in Kinds |-> <<>>]
    /\ data_queue = [k \in Kinds |-> <<>>]
    /\ wk = [k \in Kinds |-> [w \in Workers |-> NoThread]]
    /\ co = [k \in Kinds |-> [NewStream EXCEPT !.pc = "none"]]
    /\ file = [k \in Kinds |-> <<>>]
    /\ fetched = [times |-> <<0>>, flip |-> FALSE, refused |-> FALSE]
    /\ main = NewMain
    /\ \E shared \in 0..1, gen \in 0..2, in_progress \in BOOLEAN, stopping \in BOOLEAN,
          is_live \in BOOLEAN, is_unavailable \in BOOLEAN, live \in BOOLEAN,
          private \in BOOLEAN, t \in {0, RECHECK_TIME} :
          /\ shared <= gen /\ gen <= shared + 1
          /\ is_live => in_progress
          /\ is_unavailable => in_progress /\ ~is_live /\ private
          /\ private => ~live
          /\ ~in_progress => shared = 0
          /\ info = [(IF in_progress THEN Resolved(NewInfo(1), shared) ELSE NewInfo(1))
                        EXCEPT
                        !.in_progress = in_progress, !.stopping = stopping,
                        !.is_live = is_live, !.is_unavailable = is_unavailable,
                        !.expires_in_seconds =
                            IF in_progress THEN USUAL_EXPIRES - 1 - shared ELSE @,
                        !.target_duration =
                            IF in_progress THEN TargetDurationSec(shared) ELSE @]
          /\ origin = [avail |-> 1, live |-> live, gen |-> gen, private |-> private,
                       lead |-> 0, faults |-> 0, allowed |-> 1, interrupts |-> 0]
          /\ clock = [t |-> t, ticks |-> 0]
          /\ calc = [op |-> "resolve", out |-> "none", was |-> info]

\* get_video_info(info), the player response being out
ResolveOnce ==
    /\ calc.op = "resolve"
    /\ calc.out = "none"
    /\ \E out \in Outcomes(World) :
          /\ SetWorld(CallGetVideoInfo(World, out, 0))
          /\ calc' = [calc EXCEPT !.out = out]
    /\ UNCHANGED <<kinds, main, seq_queue, data_queue, wk, co, file>>

ResolveSpec == ResolveInit /\ [][ResolveOnce]_vars

\* the download URLs, last_updated and expires_in_seconds of two infos agree
SameUrls(a, b) ==
    /\ a.download_url = b.download_url
    /\ a.last_updated = b.last_updated
    /\ a.expires_in_seconds = b.expires_in_seconds

\* C30: after a resolve made while in_progress (one that got past the early
\* returns of get_video_info), is_live is false and is_unavailable true when
\* the player response had no videoDetails or was UNPLAYABLE, and is_live is
\* false with is_unavailable as it was when the status was ERROR; in each
\* case the download URLs, last_updated and expires_in_seconds are as they
\* were
C30_FailedResolveKeepsUrls ==
    /\ calc.op = "resolve"
    /\ calc.out \in {"no_details", "unplayable", "error"}
    /\ calc.was.in_progress
    /\ Resolves(calc.was, now)
    => /\ ~info.is_live
       /\ info.is_unavailable = (calc.out # "error" \/ calc.was.is_unavailable)
       /\ SameUrls(info, calc.was)

\* a live download has met UNPLAYABLE while newer URLs were to be had
C30_MadeUnavailable ==
    /\ calc.op = "resolve"
    /\ calc.out = "unplayable"
    /\ calc.was.in_progress
    /\ calc.was.is_live
    /\ ~info.is_live
    /\ info.is_unavailable
    /\ origin.gen # info.download_url[DTYPE_AUDIO]
    /\ fetched.flip

\* C31: a resolve made while in_progress (one that got past the early
\* returns of get_video_info) that met LIVE_STREAM_OFFLINE has fetched the
\* player response once and has left the shared state as it found it, every
\* field of it: is_live, is_unavailable, the download URLs, target_duration,
\* expires_in_seconds and last_updated
C31_OfflineMidDownloadKeepsAll ==
    /\ calc.op = "resolve"
    /\ calc.out = "offline"
    /\ calc.was.in_progress
    /\ Resolves(calc.was, now)
    => /\ info = calc.was
       /\ fetched.times = <<0, now>>

\* a live download has met LIVE_STREAM_OFFLINE while newer URLs were to be
\* had, RECHECK_TIME after its last refresh
C31_OfflineMidDownload ==
    /\ calc.op = "resolve"
    /\ calc.out = "offline"
    /\ calc.was.in_progress
    /\ info.is_live
    /\ origin.gen # info.download_url[DTYPE_AUDIO]
    /\ fetched.flip
    /\ now = RECHECK_TIME

\* ---------------------------------------------------------------------------
\* get_playable_player_response waiting for a scheduled stream, no
\* --retry-stream given
\* ---------------------------------------------------------------------------

\* the latest scheduledStartTime looked at, in seconds
MaxSched == 5

\* int(time.time()), the clock t being counted in half seconds
int_time(t) == t \div 2

\* a wait whose first sleep is never repeated
WokeOnce(c, t) == [c EXCEPT !.op = "resolve", !.t = t, !.slep_time = c.sched_time - int_time(t)]

\* lines 722-727: time.sleep(slep_time) has returned at t
Woke(c, t) ==
    LET slep_time == c.sched_time - int_time(t) IN
    [c EXCEPT !.op = IF slep_time > 0 THEN "sleep" ELSE "resolve",
              !.t = t, !.slep_time = slep_time,
              !.early = @ \/ slep_time > 0]

\* lines 702-717: the resolve has met LIVE_STREAM_OFFLINE with a
\* scheduledStartTime, info.retry_secs being 0
SeeOffline ==
    /\ calc.op = "offline"
    /\ LET slep_time == calc.sched_time - int_time(calc.t) IN
       calc' = [calc EXCEPT !.op = IF slep_time > 0 THEN "sleep" ELSE "late",
                            !.slep_time = slep_time]
    /\ UNCHANGED <<kinds, info, seq_queue, data_queue, wk, co, file, origin, clock,
                   fetched, main>>

\* lines 719-730: one time.sleep(slep_time) of the loop; it returns when the
\* time has passed, half a second after, or early
Sleep ==
    /\ calc.op = "sleep"
    /\ \E t \in (calc.t + 1)..(calc.t + 2 * calc.slep_time + 1) : calc' = Woke(calc, t)
    /\ UNCHANGED <<kinds, info, seq_queue, data_queue, wk, co, file, origin, clock,
                   fetched, main>>

\* the stream is scheduled for sched_time and the resolve is made at t, in
\* half seconds; early tells that a sleep has returned before its time
WaitInit ==
    /\ NoSession
    /\ \E sched_time \in 1..MaxSched, t \in 0..(2 * MaxSched + 1) :
          calc = [op |-> "offline", sched_time |-> sched_time, t |-> t, slep_time |-> 0,
                  early |-> FALSE]

WaitNext == SeeOffline \/ Sleep

WaitSpec == WaitInit /\ [][WaitNext]_vars

\* C32: the wait for a scheduled stream goes back to a resolve only when the
\* time has reached the scheduled start
C32_ResolveAtScheduledTime ==
    calc.op = "resolve" => calc.t >= 2 * calc.sched_time

\* a sleep has returned early, and the resolve was made at the scheduled time
C32_SleptAgain ==
    /\ calc.op = "resolve"
    /\ calc.early
    /\ calc.sched_time = 2
    /\ calc.t = 4

\* C33: the selection ends, for a video label, with the label's VP9 itag
\* exactly when --vp9 was given and that itag has a URL, and with its H264
\* itag otherwise, which then has a URL; the audio URL is that of itag 140;
\* and info.quality is the itag whose URL is the video download URL
C33_CodecOfSelectedLabel ==
    calc.op = "found" /\ calc.quality.label # "audio_only" =>
       LET q == calc.quality IN
       /\ q.codec = "vp9" <=> calc.vp9 /\ <<q.label, "vp9">> \in calc.dl_urls
       /\ q.codec # "vp9" => q.codec = "h264" /\ <<q.label, "h264">> \in calc.dl_urls
       /\ q.audio_url = 140
       /\ q.video_url = q.quality
       /\ q.quality = <<q.label, q.codec>>
       /\ q.video_url \in calc.dl_urls

\* --vp9 was not given, both itags of the label have a URL, H264 was taken
C33_H264WithoutFlag ==
    /\ calc.op = "found"
    /\ ~calc.vp9
    /\ calc.quality.label = "1080p60"
    /\ <<"1080p60", "vp9">> \in calc.dl_urls
    /\ calc.quality.quality = <<"1080p60", "h264">>

\* C34: in a session where audio_only was selected the quality is itag 0,
\* the shared video download URL is empty, no download_stream thread and no
\* worker of the video kind is started and no video file is made, and the
\* final file is the audio container
C34_AudioOnlySkipsVideo ==
    /\ kinds = {DTYPE_AUDIO} /\ ~info.gvideo_ddl /\ info.in_progress
       => info.quality = AUDIO_ONLY
    /\ info.quality = AUDIO_ONLY =>
          /\ info.download_url[DTYPE_VIDEO] = NoUrl
          /\ co[DTYPE_VIDEO].pc = "none"
          /\ \A w \in Workers : wk[DTYPE_VIDEO][w] = NoThread
          /\ info.active_threads[DTYPE_VIDEO] = 0
          /\ file[DTYPE_VIDEO] = <<>>
          /\ main.ts[DTYPE_VIDEO] = "none"
          /\ main.mfile \in {"", "m4a"}

\* an audio_only session has downloaded its fragment, refreshed its URLs and
\* been muxed into the audio container
C34_AudioOnlyMuxed ==
    /\ info.quality = AUDIO_ONLY
    /\ Len(fetched.times) > 1
    /\ co[DTYPE_AUDIO].pc = "done"
    /\ Len(file[DTYPE_AUDIO]) > 0
    /\ main.mux = "ok"
    /\ main.mfile = "m4a"

\* C35: active_threads of a kind is from 0 to thread_count and is the number
\* of threads started that have not made their closing decrement; past the
\* seeding, threads are started only when max_seqs - cur_seq > 100 and
\* active_threads < thread_count, as many as bring active_threads back to
\* thread_count, each with one task of a sequence number not put before
C35_ActiveThreadsCounted ==
    /\ [](\A k \in kinds :
            /\ 0 <= info.active_threads[k]
            /\ info.active_threads[k] <= info.thread_count
            /\ info.active_threads[k] =
                  Cardinality({w \in Workers : wk[k][w].pc # "none"}))
    /\ [][\A k \in kinds :
            LET n == Cardinality({w \in Workers :
                                    wk[k][w].pc = "none" /\ wk'[k][w].pc # "none"})
            IN  /\ n > 0 /\ co[k].pc = "seed" =>
                      info'.active_threads[k] = info.thread_count
                /\ n > 0 /\ co[k].pc # "seed" =>
                      /\ co[k].max_seqs - co[k].cur_seq > RESPAWN_GAP
                      /\ info.active_threads[k] < info.thread_count
                      /\ n = info.thread_count - info.active_threads[k]
                      /\ info'.active_threads[k] = info.thread_count
                      /\ co'[k].cur_seq = co[k].cur_seq + n
                      /\ seq_queue'[k] = seq_queue[k]
                            \o [i \in 1..n |-> <<co[k].cur_seq + i - 1, co[k].max_seqs>>]
         ]_vars

\* a thread was started past the seeding: more tasks are out than threads
\* were seeded, and the threads are thread_count again
C35_StartedAgain ==
    \E k \in kinds :
       /\ co[k].pc \notin {"none", "seed"}
       /\ info.thread_count > 1
       /\ info.active_threads[k] = info.thread_count
       /\ co[k].active_downloads > info.thread_count
       /\ co[k].max_seqs - co[k].cur_seq > RESPAWN_GAP - MaxThreads

\* the sequence numbers from a up to b - 1, in order
FromTo(a, b) == [i \in 1..(b - a) |-> a + i - 1]

\* the sequence numbers of the tasks of a queue, in order
SeqsOf(q) == [i \in 1..Len(q) |-> q[i][1]]

\* C36: the coordinator puts the sequence numbers in increasing order with no
\* repeat and no gap: the seeding puts 0..N-1 with known max -1, every later
\* put is of the next unused number; cur_frag <= cur_seq; and the buffer
\* holds no two Fragments of one seq
C36_DispatchedInOrder ==
    /\ [](\A k \in kinds :
            /\ co[k].cur_frag <= co[k].cur_seq
            /\ \A i, j \in 1..Len(co[k].data) :
                  co[k].data[i].seq = co[k].data[j].seq => i = j
            /\ \A i \in 1..Len(seq_queue[k]) : seq_queue[k][i][1] < co[k].cur_seq)
    /\ [][\A k \in kinds :
            \E taken \in 0..1 :
               LET left == SubSeq(seq_queue[k], taken + 1, Len(seq_queue[k]))
                   put  == SubSeq(seq_queue'[k], Len(left) + 1, Len(seq_queue'[k]))
               IN  /\ Len(seq_queue'[k]) >= Len(left)
                   /\ SubSeq(seq_queue'[k], 1, Len(left)) = left
                   /\ SeqsOf(put) = FromTo(co[k].cur_seq, co'[k].cur_seq)
                   /\ co'[k].cur_seq >= co[k].cur_seq
                   /\ co[k].pc = "seed" /\ co'[k].pc # "seed" =>
                         /\ co[k].cur_seq = 0
                         /\ Len(put) = info.thread_count
                         /\ \A i \in 1..Len(put) : put[i][2] = -1
         ]_vars

\* past the seeding a task was put for a Fragment received, and the first
\* Fragment is in the file
C36_PutAfterSeeding ==
    \E k \in kinds :
       /\ co[k].cur_seq > info.thread_count
       /\ co[k].cur_frag > 0
       /\ info.thread_count > 1

\* C37: a Fragment written whole after an attempt at it had failed part-way
\* is in the file once: its bytes do not follow bytes the failed attempt left
C37_RetriedWriteOnce ==
    \A k \in kinds : \A i \in 2..Len(file[k]) :
       file[k][i].whole => ~(~file[k][i - 1].whole /\ file[k][i - 1].seq = file[k][i].seq)

(***************************************************************************)
(* info.lock: the lock the threads of a session share, and the places where *)
(* a thread takes it, calls get_video_info under it, and joins.             *)
(***************************************************************************)
\* the threads of a session of one kind: main, its download_stream thread and
\* the download_frags threads of that
LockUsers == {"main", "stream", "frag0", "frag1"}

Frags == {"frag0", "frag1"}

\* what a thread takes the lock for: a block that reads or writes info
\* (plain), a block that may call get_video_info (resolve), get_video_info
\* called outside any block (direct), the seeding, the closing decrement of
\* download_frags (exit), and the block that sets stopping before the joins
Sections(t) ==
    CASE t = "main" -> {"plain", "stop"}
      [] t = "stream" -> {"plain", "resolve", "stop"}
      [] OTHER -> {"plain", "resolve", "exit"}

\* the threads t.join() is called for
Joined(t) == IF t = "main" THEN {"stream"} ELSE IF t = "stream" THEN Frags ELSE {}

\* a lock that its owner cannot take again
CanAcquireOnce(c, t) == c.owner = "none"

\* line 160, threading.RLock: free, or owned by the thread that asks
CanAcquire(c, t) == c.owner \in {"none", t}

\* main before its first get_video_info; no other thread is started
LockInit ==
    /\ NoSession
    /\ calc = [op |-> "lock", owner |-> "none", count |-> 0,
               pc |-> [t \in LockUsers |-> IF t = "main" THEN "out" ELSE "unstarted"],
               sect |-> [t \in LockUsers |-> IF t = "main" THEN "direct" ELSE "seed"]]

\* a thread outside the lock comes to a "with info.lock" (or to a call of
\* get_video_info outside any block, which takes the lock itself, line 831)
Request(t) ==
    /\ calc.pc[t] = "out"
    /\ \E s \in IF calc.sect[t] \in {"direct", "seed"} THEN {calc.sect[t]} ELSE Sections(t) :
          calc' = [calc EXCEPT !.pc[t] = "want", !.sect[t] = s]

\* lock.acquire() returns: at the head of a block, or inside get_video_info.
\* The seeding starts the download_frags threads under the lock.
Acquire(t) ==
    /\ calc.pc[t] \in {"want", "call"}
    /\ CanAcquire(calc, t)
    /\ calc' = [calc EXCEPT
                  !.owner = t, !.count = @ + 1,
                  !.pc = [u \in LockUsers |->
                            IF u = t
                               THEN (IF calc.pc[t] = "call" \/ calc.sect[t] = "direct"
                                        THEN "resolving" ELSE "in")
                            ELSE IF u \in Frags /\ t = "stream" /\ calc.sect[t] = "seed"
                               THEN "out"
                            ELSE @[u]],
                  !.sect = [u \in LockUsers |->
                              IF u \in Frags /\ t = "stream" /\ calc.sect[t] = "seed"
                                 THEN "plain" ELSE @[u]]]

\* lines 1080, 1166, 1216, 1434: get_video_info(info) is called inside the block
Call(t) ==
    /\ calc.pc[t] = "in"
    /\ calc.sect[t] = "resolve"
    /\ calc' = [calc EXCEPT !.pc[t] = "call"]

\* get_video_info returns and its "with info.lock" releases once
Return(t) ==
    /\ calc.pc[t] = "resolving"
    /\ calc' = [calc EXCEPT
                  !.count = @ - 1,
                  !.owner = IF calc.count = 1 THEN "none" ELSE @,
                  !.pc = [u \in LockUsers |->
                            IF u = t THEN (IF calc.count = 1 THEN "out" ELSE "in")
                            ELSE IF u = "stream" /\ t = "main" /\ calc.sect[t] = "direct"
                               THEN "out"
                            ELSE @[u]],
                  !.sect[t] = "plain"]

\* the end of a "with info.lock" block; after the closing decrement the
\* thread ends, after stopping was set the joins follow, outside the block
Release(t) ==
    /\ calc.pc[t] = "in"
    /\ calc' = [calc EXCEPT
                  !.count = @ - 1,
                  !.owner = IF calc.count = 1 THEN "none" ELSE @,
                  !.pc[t] = CASE calc.sect[t] = "exit" -> "ended"
                              [] calc.sect[t] = "stop" -> "join"
                              [] OTHER -> "out",
                  !.sect[t] = IF @ = "seed" THEN "plain" ELSE @]

\* lines 1443-1444 and 2092-2093: "for t in threads: t.join()" returns
JoinReturns(t) ==
    /\ calc.pc[t] = "join"
    /\ \A u \in Joined(t) : calc.pc[u] \in {"ended", "unstarted"}
    /\ calc' = [calc EXCEPT !.pc[t] = "ended"]

\* download_stream leaves its loop when the download is over, and main its
\* progress loop when no download_stream thread is alive
LeaveLoop(t) ==
    /\ t \in {"main", "stream"}
    /\ calc.pc[t] = "out"
    /\ calc.sect[t] \notin {"direct", "seed"}
    /\ t = "main" => calc.pc["stream"] = "ended"
    /\ calc' = [calc EXCEPT !.pc[t] = "ended"]

LockStep(t) ==
    /\ calc.op = "lock"
    /\ Request(t) \/ Acquire(t) \/ Call(t) \/ Return(t) \/ Release(t) \/ JoinReturns(t) \/ LeaveLoop(t)
    /\ UNCHANGED <<kinds, info, seq_queue, data_queue, wk, co, file, origin, clock, fetched,
                   main>>

LockNext == \E t \in LockUsers : LockStep(t)

\* a thread that can run does run, and one that asks for the lock again and
\* again while it comes free gets it; a call of get_video_info returns
LockSpec ==
    /\ LockInit
    /\ [][LockNext]_vars
    /\ \A t \in LockUsers : SF_vars(LockStep(t))

ProgressInit ==
    /\ NoSession
    /\ calc = [op |-> "progress", pc |-> "alive", alive |-> TRUE,
               progress_queue |-> <<>>,
               running |-> [k \in Kinds |-> TRUE],
               written |-> [k \in Kinds |-> 0],
               frags |-> [k \in Kinds |-> 0]]

\* lines 1376-1378: download_stream has written a Fragment: cur_frag += 1 and
\* progress_queue.put(ProgressInfo(data_type, bytes_written, max_seqs))
PutProgress(k) ==
    /\ calc.running[k]
    /\ calc.written[k] < MaxFrags
    /\ calc' = [calc EXCEPT !.written[k] = @ + 1,
                            !.progress_queue = Append(@, k)]

\* download_stream returns and its thread is no longer alive
StreamEnds(k) ==
    /\ calc.running[k]
    /\ calc' = [calc EXCEPT !.running[k] = FALSE]

\* lines 2063-2068: alive is whether any thread is_alive()
CheckAlive ==
    /\ calc.pc = "alive"
    /\ calc' = [calc EXCEPT !.pc = "get", !.alive = \E k \in Kinds : calc.running[k]]

\* lines 2070-2084 and 2124-2125: progress_queue.get(timeout=1) gives one
\* event, counted in frags, or raises queue.Empty; then "if not alive: break"
GetProgress ==
    /\ calc.pc = "get"
    /\ LET q == calc.progress_queue IN
       calc' = [calc EXCEPT
                  !.progress_queue = IF q = <<>> THEN q ELSE Tail(q),
                  !.frags = IF q = <<>> THEN @ ELSE [@ EXCEPT ![Head(q)] = @ + 1],
                  !.pc = IF calc.alive THEN "alive" ELSE "finished"]

ProgressNext ==
    /\ calc.op = "progress"
    /\ (\E k \in Kinds : PutProgress(k) \/ StreamEnds(k)) \/ CheckAlive \/ GetProgress
    /\ UNCHANGED <<kinds, info, seq_queue, data_queue, wk, co, file, origin, clock, fetched,
                   main>>

ProgressSpec == ProgressInit /\ [][ProgressNext]_vars

\* C39: when main has left its progress loop with both threads over, it has
\* taken every event put, and frags of each kind is the number of Fragments
\* the download_stream of that kind wrote
C39_AllProgressCounted ==
    calc.op = "progress" /\ calc.pc = "finished"
       => /\ calc.progress_queue = <<>>
          /\ \A k \in Kinds : calc.frags[k] = calc.written[k]

(***************************************************************************)
(* get_atoms round by round, over buffers whose length fields hold any     *)
(* value.  A buffer is a sequence of cells of four bytes; a cell is the    *)
(* number it gives when read as a length field, counted in cells.          *)
(***************************************************************************)
\* bounds of the buffers scanned and of the rounds followed
MaxBuf == 4
MaxRounds == 6

\* a length field above the length of every buffer; its bytes are no text
\* either, and decode() raises on them
BigCell == MaxBuf + 1

Buffers == UNION {[1..n -> 0..BigCell] : n \in 0..MaxBuf}

\* get_atoms(data) before its loop
ScanInit ==
    /\ NoSession
    /\ \E data \in Buffers :
          calc = [op |-> "scan", data |-> data, ofs |-> 0, found |-> <<>>, rounds |-> 0]

\* lines 986-1002: one round of "while True".  int() of an empty slice and
\* decode() of bytes that are no text raise, and the except branch breaks;
\* slices that reach past the end of data are cut short by Python.
ScanRound ==
    /\ calc.op = "scan"
    /\ calc.rounds < MaxRounds
    /\ LET data == calc.data
           ofs  == calc.ofs
           done == [calc EXCEPT !.op = "scanned", !.rounds = @ + 1]
       IN  calc' =
              IF ofs >= Len(data) THEN done
              ELSE LET alen == data[ofs + 1] IN
                   IF alen > Len(data) THEN done
                   ELSE IF ofs + 1 < Len(data) /\ data[ofs + 2] = BigCell THEN done
                   ELSE LET next == [calc EXCEPT !.ofs = ofs + alen,
                                                 !.found = Append(@, ofs),
                                                 !.rounds = @ + 1]
                        IN  IF ofs + alen + HEADER >= Len(data)
                               THEN [next EXCEPT !.op = "scanned"]
                               ELSE next
    /\ UNCHANGED <<kinds, info, seq_queue, data_queue, wk, co, file, origin, clock, fetched,
                   main>>

ScanSpec == ScanInit /\ [][ScanRound]_vars

\* C40: the scan ends on every buffer: each round that does not end it moves
\* the offset forward, so there are never more rounds than cells; and every
\* header it reads begins inside the buffer
C40_ScanEnds ==
    calc.op \in {"scan", "scanned"} =>
       /\ calc.rounds <= Len(calc.data) + 1
       /\ \A i \in 1..Len(calc.found) : calc.found[i] < Len(calc.data)


====
